---- MODULE Spec2Model ----
(***************************************************************************)
(* norns: the contract-call, contract-read and connect-wallet custom       *)
(* elements, and the Keccak-256 of the bundled js-sha3.                    *)
(*                                                                         *)
(* One element instance is modelled together with its environment: the     *)
(* injected wallet provider (window.ethereum), the optional JSON-RPC       *)
(* endpoint and the ABI url.  Every await of the source is a point where   *)
(* the handler is suspended; the step that follows an await is one action. *)
(*                                                                         *)
(* JavaScript strings that the code inspects character by character (chain *)
(* ids, hex payloads) are sequences of one-character strings; strings the  *)
(* code only stores and compares are TLA+ strings; null/undefined is the   *)
(* empty sequence and a present value v is <<v>> where both can occur.     *)
(***************************************************************************)
EXTENDS Integers, Sequences, FiniteSets, TLC

\* ------------------------------------------------------------------ bounds
\* Operations performed on the element after its upgrade: attribute changes,
\* insertions into a document, and invocations of callContract / readContract
MaxOps == 2

\* ------------------------------------------------------------- characters
NULL == <<>>

Some(v) == <<v>>

HEX_CHARS == <<"0", "1", "2", "3", "4", "5", "6", "7", "8", "9", "a", "b", "c", "d", "e", "f">>

DecDigits == {"0", "1", "2", "3", "4", "5", "6", "7", "8", "9"}

\* value of one hex digit, either case (parseInt / BigInt digit value)
DigitVal(c) ==
    CASE c = "0" -> 0 [] c = "1" -> 1 [] c = "2" -> 2 [] c = "3" -> 3
      [] c = "4" -> 4 [] c = "5" -> 5 [] c = "6" -> 6 [] c = "7" -> 7
      [] c = "8" -> 8 [] c = "9" -> 9
      [] c \in {"a", "A"} -> 10 [] c \in {"b", "B"} -> 11
      [] c \in {"c", "C"} -> 12 [] c \in {"d", "D"} -> 13
      [] c \in {"e", "E"} -> 14 [] c \in {"f", "F"} -> 15
      [] OTHER -> 16

IsHexDigit(c) == DigitVal(c) < 16

\* a toLowerCase that leaves the character as it is
KeepChar(c) == c

\* String.prototype.toLowerCase on the characters the model uses
LowerChar(c) ==
    CASE c = "A" -> "a" [] c = "B" -> "b" [] c = "C" -> "c" [] c = "D" -> "d"
      [] c = "E" -> "e" [] c = "F" -> "f" [] c = "X" -> "x" [] OTHER -> c

ToLowerCase(s) == [i \in 1..Len(s) |-> LowerChar(s[i])]

StartsWith(s, p) == Len(s) >= Len(p) /\ SubSeq(s, 1, Len(p)) = p

\* Number.prototype.toString() / BigInt.prototype.toString(), n >= 0
RECURSIVE ToString10(_)
ToString10(n) ==
    IF n < 10 THEN <<HEX_CHARS[n + 1]>>
    ELSE ToString10(n \div 10) \o <<HEX_CHARS[(n % 10) + 1]>>

\* value of a digit string in the given radix (every character a digit of it)
RECURSIVE DigitsValue(_, _)
DigitsValue(s, radix) ==
    IF s = <<>> THEN 0
    ELSE DigitsValue(SubSeq(s, 1, Len(s) - 1), radix) * radix + DigitVal(s[Len(s)])

\* the longest prefix of decimal digits
RECURSIVE DecPrefix(_)
DecPrefix(s) ==
    IF s # <<>> /\ s[1] \in DecDigits THEN <<s[1]>> \o DecPrefix(Tail(s)) ELSE <<>>

\* parseInt(s, 10): optional sign, then the longest run of decimal digits;
\* NaN when there is none
ParseInt10(s) ==
    LET neg == s # <<>> /\ s[1] = "-"
        body == IF s # <<>> /\ s[1] \in {"-", "+"} THEN Tail(s) ELSE s
        ds == DecPrefix(body)
    IN  [nan |-> ds = <<>>, neg |-> neg, mag |-> ds]

Repeat(c, n) == [i \in 1..n |-> c]

\* a padStart that leaves the string as it is
PadNothing(s, n, c) == s

\* String.prototype.padStart / padEnd with a one-character filler
PadStart(s, n, c) == Repeat(c, n - Len(s)) \o s

\* String.prototype.replace("0x", ""): the first occurrence only
Replace0x(s) ==
    IF \E i \in 1..(Len(s) - 1) : s[i] = "0" /\ s[i + 1] = "x"
    THEN SubSeq(s, 1, (CHOOSE i \in 1..(Len(s) - 1) :
                          /\ s[i] = "0" /\ s[i + 1] = "x"
                          /\ \A j \in 1..(i - 1) : ~(s[j] = "0" /\ s[j + 1] = "x")) - 1)
         \o SubSeq(s, (CHOOSE i \in 1..(Len(s) - 1) :
                          /\ s[i] = "0" /\ s[i + 1] = "x"
                          /\ \A j \in 1..(i - 1) : ~(s[j] = "0" /\ s[j + 1] = "x")) + 2, Len(s))
    ELSE s

\* ------------------------------------------------------ attribute values
\* chain-id attribute texts and the wallet's eth_chainId answers
CHAIN_MAINNET_HEX == <<"0", "x", "1">>

CHAIN_SEPOLIA_DEC == <<"1", "1", "1", "5", "5", "1", "1", "1">>

CHAIN_SEPOLIA_HEX == <<"0", "x", "a", "a", "3", "6", "a", "7">>

WalletChains == {CHAIN_MAINNET_HEX, CHAIN_SEPOLIA_HEX}

ADDRESS == "0x8C9EC9c13812C7F9F26AB934d4bF36206240dDA8"

ACCOUNT == "0x52908400098527886E0F7030069857D2E4169EE7"

OTHER_ACCOUNT == "0xde709f2102306220921060314715629080e2fb77"

ABI_URL == "https://example.org/abi.json"

\* a second address, which serves the second ABI
ABI_URL_2 == "https://example.org/token.json"

RPC_URL == "https://rpc.example.org"

\* a function descriptor of an ABI document
Fn(name, mutability, inTypes, outTypes) ==
    [type |-> "function", name |-> name, stateMutability |-> mutability,
     inputs |-> [i \in 1..Len(inTypes) |-> [name |-> "", type |-> inTypes[i]]],
     outputs |-> [i \in 1..Len(outTypes) |-> [name |-> "", type |-> outTypes[i]]]]

\* the Counter ABI of the README example
AbiCounter ==
    << Fn("increment", "nonpayable", <<>>, <<>>),
       Fn("number", "view", <<>>, <<"uint256">>),
       Fn("setNumber", "nonpayable", <<"uint256">>, <<>>) >>

\* reading stateMutability of an entry that has none gives undefined
NO_MUTABILITY == "undefined"

\* a second ABI: an event named number, then two functions named number (the
\* first payable, its overload a view), owner() a view, setNumber as an
\* entry without stateMutability, and foo() pure
AbiToken ==
    << [Fn("number", "view", <<>>, <<>>) EXCEPT !.type = "event"],
       Fn("number", "payable", <<"address">>, <<>>),
       Fn("number", "view", <<"uint256">>, <<"uint256">>),
       Fn("owner", "view", <<>>, <<"address">>),
       Fn("setNumber", NO_MUTABILITY, <<"uint256">>, <<>>),
       Fn("foo", "pure", <<>>, <<"string">>) >>

\* a JavaScript value: a number, a string, or the {transactionHash} object
JsNumber(n) == [t |-> "number", n |-> n, s |-> <<>>]

JsString(s) == [t |-> "string", n |-> 0, s |-> s]

JsTx(hash) == [t |-> "object", n |-> 0, s |-> <<hash>>]

\* attribute texts that hold JSON, and JSON.parse on them: [ok, value];
\* ok = FALSE is the SyntaxError JSON.parse throws
JSON_ABI_COUNTER == "[{increment},{number},{setNumber}]"

JSON_ABI_TOKEN == "[{event number},{number},{number},{owner},{setNumber},{foo}]"

JSON_ARGS_5 == "[5]"

JSON_ARGS_ZZ == "[\"zz\"]"

JSON_INVALID == "{not json"

\* a JSON.parse that returns an empty array for a text it cannot parse
JSONParseOrEmpty(text) ==
    CASE text = JSON_ABI_COUNTER -> [ok |-> TRUE, value |-> AbiCounter]
      [] text = JSON_ABI_TOKEN -> [ok |-> TRUE, value |-> AbiToken]
      [] text = JSON_ARGS_5 -> [ok |-> TRUE, value |-> <<JsNumber(5)>>]
      [] text = JSON_ARGS_ZZ -> [ok |-> TRUE, value |-> <<JsString(<<"z", "z">>)>>]
      [] OTHER -> [ok |-> TRUE, value |-> <<>>]

JSONParse(text) ==
    CASE text = JSON_ABI_COUNTER -> [ok |-> TRUE, value |-> AbiCounter]
      [] text = JSON_ABI_TOKEN -> [ok |-> TRUE, value |-> AbiToken]
      [] text = JSON_ARGS_5 -> [ok |-> TRUE, value |-> <<JsNumber(5)>>]
      [] text = JSON_ARGS_ZZ -> [ok |-> TRUE, value |-> <<JsString(<<"z", "z">>)>>]
      [] OTHER -> [ok |-> FALSE, value |-> <<>>]

MethodNameAttrs == {"number", "setNumber", "foo"}

\* an Error's message: the fragments of the template literal that built it
Msg1(a) == <<a>>

Msg2(a, b) == <<a, b>>

Msg3(a, b, c) == <<a, b, c>>

WALLET_REJECTED == "User rejected the request."

\* --------------------------------------------------- encoding and decoding
\* UTF-8 code of a character (the characters the model uses are ASCII)
CharCode(c) ==
    CASE c \in DecDigits -> 48 + DigitVal(c)
      [] c \in {"a", "b", "c", "d", "e", "f"} -> 87 + DigitVal(c)
      [] c \in {"A", "B", "C", "D", "E", "F"} -> 55 + DigitVal(c)
      [] c = "x" -> 120 [] c = "X" -> 88 [] c = "z" -> 122 [] c = "-" -> 45
      [] OTHER -> 63

\* A BigInt is kept as its sign and its magnitude in decimal digits, most
\* significant first and without leading zeros: it has no largest value.
StripZeros(ds) ==
    IF \A i \in 1..Len(ds) : ds[i] = "0" THEN <<"0">>
    ELSE SubSeq(ds, CHOOSE i \in 1..Len(ds) : ds[i] # "0" /\ \A j \in 1..(i - 1) : ds[j] = "0",
                Len(ds))

\* Arithmetic on it goes through limbs: the digits taken four at a time from
\* the right, each group as a number below 10000, most significant first.
Limb(ds, k) ==
    DigitVal(ds[k]) * 1000 + DigitVal(ds[k + 1]) * 100 + DigitVal(ds[k + 2]) * 10
    + DigitVal(ds[k + 3])

Limbs(ds) ==
    LET padded == Repeat("0", 4 * ((Len(ds) + 3) \div 4) - Len(ds)) \o ds
    IN  [k \in 1..(Len(padded) \div 4) |-> Limb(padded, 4 * k - 3)]

\* the same grouping of hex digits: each group a number below 65536
HexLimb(hs, k) ==
    DigitVal(hs[k]) * 4096 + DigitVal(hs[k + 1]) * 256 + DigitVal(hs[k + 2]) * 16
    + DigitVal(hs[k + 3])

HexLimbs(hs) ==
    LET padded == Repeat("0", 4 * ((Len(hs) + 3) \div 4) - Len(hs)) \o hs
    IN  [k \in 1..(Len(padded) \div 4) |-> HexLimb(padded, 4 * k - 3)]

\* the four digits of a limb, and the digits of a sequence of limbs
Digits4(v) ==
    <<HEX_CHARS[(v \div 1000) + 1], HEX_CHARS[((v \div 100) % 10) + 1],
      HEX_CHARS[((v \div 10) % 10) + 1], HEX_CHARS[(v % 10) + 1]>>

DigitsOf(ls) == StripZeros([j \in 1..(4 * Len(ls)) |-> Digits4(ls[((j - 1) \div 4) + 1])[((j - 1) % 4) + 1]])

HexDigits4(v) ==
    <<HEX_CHARS[(v \div 4096) + 1], HEX_CHARS[((v \div 256) % 16) + 1],
      HEX_CHARS[((v \div 16) % 16) + 1], HEX_CHARS[(v % 16) + 1]>>

HexDigitsOf(ls) == StripZeros([j \in 1..(4 * Len(ls)) |-> HexDigits4(ls[((j - 1) \div 4) + 1])[((j - 1) % 4) + 1]])

\* long division of the limbs ls by d <= 65536: acc holds the quotient limbs
\* of ls[1..Len(acc)] and rem their remainder: [q, r]
RECURSIVE LongDiv(_, _, _, _)
LongDiv(ls, d, rem, acc) ==
    IF Len(acc) >= Len(ls) THEN [q |-> acc, r |-> rem]
    ELSE LongDiv(ls, d, (rem * 10000 + ls[Len(acc) + 1]) % d,
                 acc \o <<(rem * 10000 + ls[Len(acc) + 1]) \div d>>)

\* the limbs of a magnitude rewritten in base 65536 by repeated division
RECURSIVE ToHexLimbs(_)
ToHexLimbs(ls) ==
    IF \A k \in 1..Len(ls) : LongDiv(ls, 65536, 0, <<>>).q[k] = 0
    THEN <<LongDiv(ls, 65536, 0, <<>>).r>>
    ELSE ToHexLimbs(LongDiv(ls, 65536, 0, <<>>).q) \o <<LongDiv(ls, 65536, 0, <<>>).r>>

\* BigInt.prototype.toString(16) of a magnitude
BigToString16(ds) == HexDigitsOf(ToHexLimbs(Limbs(ds)))

\* the limbs of ls * m + carry, for m <= 65536 and carry < 65536
RECURSIVE MulAdd(_, _, _)
MulAdd(ls, m, carry) ==
    IF carry = 0 /\ ls = <<>> THEN <<>>
    ELSE IF ls = <<>> THEN MulAdd(<<>>, m, carry \div 10000) \o <<carry % 10000>>
    ELSE MulAdd(SubSeq(ls, 1, Len(ls) - 1), m, (ls[Len(ls)] * m + carry) \div 10000)
         \o <<(ls[Len(ls)] * m + carry) % 10000>>

\* the limbs of the magnitude written by the base-65536 limbs hl
RECURSIVE FromHexLimbs(_)
FromHexLimbs(hl) ==
    IF hl = <<>> THEN <<>>
    ELSE MulAdd(FromHexLimbs(SubSeq(hl, 1, Len(hl) - 1)), 65536, hl[Len(hl)])

\* the magnitude written by the hex digits hs, in decimal digits
BigFromHex(hs) == DigitsOf(FromHexLimbs(HexLimbs(hs)))

\* String(value): a number is rendered in decimal
JsToString(value) == IF value.t = "number" THEN ToString10(value.n) ELSE value.s

\* BigInt(value): [ok, neg, mag]; ok = FALSE is the SyntaxError for a string
\* that is neither empty, decimal digits with an optional sign, nor 0x followed
\* by hex digits
ToBigInt(value) ==
    LET s == value.s
        hex == Len(s) > 2 /\ s[1] = "0" /\ s[2] \in {"x", "X"}
               /\ \A i \in 3..Len(s) : IsHexDigit(s[i])
        signed == Len(s) > 1 /\ s[1] \in {"-", "+"} /\ \A i \in 2..Len(s) : s[i] \in DecDigits
    IN  IF value.t = "number" THEN [ok |-> TRUE, neg |-> FALSE, mag |-> ToString10(value.n)]
        ELSE IF \A i \in 1..Len(s) : s[i] \in DecDigits
             THEN [ok |-> TRUE, neg |-> FALSE, mag |-> StripZeros(s)]
        ELSE IF signed
             THEN [ok |-> TRUE, neg |-> s[1] = "-" /\ StripZeros(Tail(s)) # <<"0">>,
                   mag |-> StripZeros(Tail(s))]
        ELSE IF hex
             THEN [ok |-> TRUE, neg |-> FALSE,
                   mag |-> BigFromHex(StripZeros(SubSeq(s, 3, Len(s))))]
        ELSE [ok |-> FALSE, neg |-> FALSE, mag |-> <<"0">>]

\* bytes rendered as two lowercase hex characters each
BytesHex(s) ==
    [j \in 1..(2 * Len(s)) |->
        IF j % 2 = 1 THEN HEX_CHARS[(CharCode(s[(j + 1) \div 2]) \div 16) + 1]
        ELSE HEX_CHARS[(CharCode(s[j \div 2]) % 16) + 1]]

\* encodeValue(value, type): [ok, hex, error]; ok = FALSE is a thrown error
encodeValue(value, type) ==
    IF type \in {"uint256", "uint"} THEN
        LET b == ToBigInt(value)
        IN  IF b.ok
            THEN [ok |-> TRUE, error |-> <<>>,
                  hex |-> PadStart((IF b.neg THEN <<"-">> ELSE <<>>) \o BigToString16(b.mag),
                                   64, "0")]
            ELSE [ok |-> FALSE, hex |-> <<>>,
                  error |-> Msg3("Cannot convert ", value.s, " to a BigInt")]
    ELSE IF type = "address" THEN
        IF value.t = "string"
        THEN [ok |-> TRUE, hex |-> PadStart(Replace0x(ToLowerCase(value.s)), 64, "0"), error |-> <<>>]
        ELSE [ok |-> FALSE, hex |-> <<>>, error |-> Msg1("value.toLowerCase is not a function")]
    ELSE IF type = "string" THEN
        [ok |-> TRUE,
         hex |-> BytesHex(JsToString(value)) \o Repeat("0", 64 - Len(BytesHex(JsToString(value)))),
         error |-> <<>>]
    ELSE [ok |-> TRUE, hex |-> PadStart(<<>>, 64, "0"), error |-> <<>>]

\* the loop of encodeArguments over methodArgs[i..], appending to acc
RECURSIVE EncodeLoop(_, _, _, _)
EncodeLoop(inputs, args, i, acc) ==
    IF i > Len(args) THEN [ok |-> TRUE, hex |-> acc, error |-> <<>>]
    ELSE IF i > Len(inputs) THEN EncodeLoop(inputs, args, i + 1, acc)
    ELSE LET w == encodeValue(args[i], inputs[i].type)
         IN  IF w.ok THEN EncodeLoop(inputs, args, i + 1, acc \o w.hex) ELSE w

\* an encodeArguments() that fills a zero word for each input left without
\* an argument
encodeArgumentsZeroFilled(t) ==
    LET inputs == t.methodData[1].inputs
        enc == EncodeLoop(inputs, t.methodArgs, 1, <<>>)
    IN  IF enc.ok /\ Len(inputs) > Len(t.methodArgs)
        THEN [enc EXCEPT !.hex = @ \o Repeat("0", 64 * (Len(inputs) - Len(t.methodArgs)))]
        ELSE enc

\* encodeArguments(): [ok, hex, error]
encodeArguments(t) ==
    LET inputs == t.methodData[1].inputs
    IN  IF Len(inputs) = 0 \/ Len(t.methodArgs) = 0
        THEN [ok |-> TRUE, hex |-> <<>>, error |-> <<>>]
        ELSE EncodeLoop(inputs, t.methodArgs, 1, <<>>)

\* the canonical signature hashed by encodeMethodSignature: the current
\* methodName and the input types of the current methodData
Signature(t) ==
    [name |-> t.methodName,
     types |-> [i \in 1..Len(t.methodData[1].inputs) |-> t.methodData[1].inputs[i].type]]

\* a selector taken from the types of the inputs that were given an argument
encodeMethodSignatureOfArgs(t) ==
    [keccak256 |-> [name |-> t.methodName,
                    types |-> [i \in 1..Len(t.methodArgs) |->
                                  IF i <= Len(t.methodData[1].inputs)
                                  THEN t.methodData[1].inputs[i].type ELSE "?"]]]

\* encodeMethodSignature(): "0x" and the first 8 hex characters of
\* keccak256(signature).  The hash is not expanded here: a selector is
\* identified by the signature it is the hash of.
encodeMethodSignature(t) == [keccak256 |-> Signature(t)]

\* character of a decoded byte
CodeChar(b) ==
    CASE b >= 48 /\ b <= 57 -> HEX_CHARS[b - 47]
      [] b >= 97 /\ b <= 102 -> HEX_CHARS[b - 86]
      [] b = 120 -> "x" [] b = 122 -> "z" [] b = 0 -> "\\0"
      [] OTHER -> "?"

\* data.match(/.{2}/g) mapped through parseInt(byte, 16) and TextDecoder
DecodeBytes(s) ==
    [k \in 1..(Len(s) \div 2) |-> CodeChar(DigitVal(s[2 * k - 1]) * 16 + DigitVal(s[2 * k]))]

\* String.prototype.slice(-40)
SliceLast40(s) == IF Len(s) <= 40 THEN s ELSE SubSeq(s, Len(s) - 39, Len(s))

\* a decodeResult(result) that takes "0x" for data
decodeResultOfEmptyData(t, result) ==
    IF result = NULL \/ result[1] = <<>>
    THEN [ok |-> TRUE, value |-> NULL, error |-> <<>>]
    ELSE IF Len(t.methodData[1].outputs) = 0
    THEN [ok |-> TRUE, value |-> Some(JsString(result[1])), error |-> <<>>]
    ELSE IF t.methodData[1].outputs[1].type \in {"uint256", "uint"}
    THEN [ok |-> TRUE, value |-> Some(JsString(BigFromHex(StripZeros(Replace0x(result[1]))))),
          error |-> <<>>]
    ELSE IF t.methodData[1].outputs[1].type = "address"
    THEN [ok |-> TRUE, error |-> <<>>,
          value |-> Some(JsString(<<"0", "x">> \o SliceLast40(Replace0x(result[1]))))]
    ELSE IF t.methodData[1].outputs[1].type = "string"
    THEN [ok |-> TRUE, value |-> Some(JsString(DecodeBytes(Replace0x(result[1])))), error |-> <<>>]
    ELSE [ok |-> TRUE, value |-> Some(JsString(result[1])), error |-> <<>>]

\* decodeResult(result) for the current methodData: [ok, value, error];
\* result and value are absent (NULL) or <<v>>
decodeResult(t, result) ==
    IF result = NULL \/ result[1] = <<>> \/ result[1] = <<"0", "x">>
    THEN [ok |-> TRUE, value |-> NULL, error |-> <<>>]
    ELSE
    LET outputs == t.methodData[1].outputs
        data == Replace0x(result[1])
    IN  IF Len(outputs) = 0 THEN [ok |-> TRUE, value |-> Some(JsString(result[1])), error |-> <<>>]
        ELSE IF outputs[1].type \in {"uint256", "uint"} THEN
            IF data # <<>> /\ \A i \in 1..Len(data) : IsHexDigit(data[i])
            THEN [ok |-> TRUE, error |-> <<>>,
                  value |-> Some(JsString(BigFromHex(StripZeros(data))))]
            ELSE [ok |-> FALSE, value |-> NULL,
                  error |-> Msg3("Cannot convert ", <<"0", "x">> \o data, " to a BigInt")]
        ELSE IF outputs[1].type = "address" THEN
            [ok |-> TRUE, value |-> Some(JsString(<<"0", "x">> \o SliceLast40(data))), error |-> <<>>]
        ELSE IF outputs[1].type = "string" THEN
            [ok |-> TRUE, value |-> Some(JsString(DecodeBytes(data))), error |-> <<>>]
        ELSE [ok |-> TRUE, value |-> Some(JsString(result[1])), error |-> <<>>]

\* A Number is an IEEE 754 double: parseInt returns the double nearest to the
\* digits it read (exactly so up to 20 significant digits), which keeps 53
\* significant bits. The bits of a magnitude given in hex digits, most
\* significant first and without leading zeros (none for zero):
Bits(hs) ==
    LET all == [j \in 1..(4 * Len(hs)) |->
                  (DigitVal(hs[((j - 1) \div 4) + 1]) \div (2 ^ (3 - ((j - 1) % 4)))) % 2]
    IN  IF \A i \in 1..Len(all) : all[i] = 0 THEN <<>>
        ELSE SubSeq(all, CHOOSE i \in 1..Len(all) : all[i] = 1 /\ \A j \in 1..(i - 1) : all[j] = 0,
                    Len(all))

\* the bits bs plus one; one bit longer when every bit was set
Increment(bs) ==
    IF \A i \in 1..Len(bs) : bs[i] = 1 THEN <<1>> \o [i \in 1..Len(bs) |-> 0]
    ELSE [i \in 1..Len(bs) |->
            IF \E j \in (i + 1)..Len(bs) : bs[j] = 0 THEN bs[i]
            ELSE IF bs[i] = 0 THEN 1 ELSE 0]

\* round to nearest, ties to even, at 53 significant bits
RoundToDouble(bs) ==
    IF Len(bs) <= 53 THEN bs
    ELSE (IF bs[54] = 1 /\ (bs[53] = 1 \/ \E i \in 55..Len(bs) : bs[i] = 1)
          THEN Increment(SubSeq(bs, 1, 53)) ELSE SubSeq(bs, 1, 53))
         \o [i \in 1..(Len(bs) - 53) |-> 0]

\* the hex digits of a sequence of bits
HexOfBits(bs) ==
    LET padded == [i \in 1..(4 * ((Len(bs) + 3) \div 4) - Len(bs)) |-> 0] \o bs
    IN  IF bs = <<>> THEN <<"0">>
        ELSE [k \in 1..(Len(padded) \div 4) |->
                HEX_CHARS[padded[4 * k - 3] * 8 + padded[4 * k - 2] * 4
                          + padded[4 * k - 1] * 2 + padded[4 * k] + 1]]

\* Number.prototype.toString(16) of the Number parseInt made of the decimal
\* digits ds: the digits of the double, which past 2^53 is not the integer read
NumberToString16(ds) == HexOfBits(RoundToDouble(Bits(BigToString16(StripZeros(ds)))))

\* ContractRead.normalizeChainId(chainId); chainId is absent (NULL) or <<text>>
normalizeChainId(chainId) ==
    IF chainId = NULL \/ chainId[1] = <<>> THEN CHAIN_MAINNET_HEX
    ELSE IF StartsWith(chainId[1], <<"0", "x">>) THEN ToLowerCase(chainId[1])
    ELSE LET p == ParseInt10(chainId[1])
         IN  IF p.nan THEN CHAIN_MAINNET_HEX
             ELSE <<"0", "x">> \o (IF p.neg /\ StripZeros(p.mag) # <<"0">> THEN <<"-">> ELSE <<>>)
                  \o NumberToString16(p.mag)

\* ------------------------------------------------------------------ state
VARIABLES
    tag,          \* the element class: "contract-call" or "contract-read"
    this,         \* the element's fields
    attrs,        \* the element's attributes, each absent (NULL) or <<text>>
    ethereum,     \* window.ethereum is present
    walletChain,  \* the chain the wallet is on (its eth_chainId answer)
    calls,        \* the callContract / readContract invocations past the pre-checks
    fetches,      \* the fetchAbi invocations past the abiUrl check
    step,         \* what the last handler made observable: failures met, events emitted
    nOps,         \* operations performed on the element so far
    codec         \* the encoder and decoder applied to one value: where it got to

vars == <<tag, this, attrs, ethereum, walletChain, calls, fetches, step, nOps, codec>>

Tags == {"contract-call", "contract-read"}

AttrNames ==
    {"contract-address", "chain-id", "method-name", "method-args", "abi-url", "abi", "rpc-url"}

\* observedAttributes: rpc-url is observed by contract-read only
observedAttributes(tg) ==
    IF tg = "contract-read" THEN AttrNames ELSE AttrNames \ {"rpc-url"}

AttrValues(name) ==
    CASE name = "contract-address" -> {ADDRESS}
      [] name = "chain-id" -> {CHAIN_SEPOLIA_DEC, CHAIN_SEPOLIA_HEX}
      [] name = "method-name" -> MethodNameAttrs
      [] name = "method-args" -> {JSON_ARGS_5, JSON_ARGS_ZZ, JSON_INVALID}
      [] name = "abi-url" -> {ABI_URL}
      [] name = "abi" -> {JSON_ABI_COUNTER, JSON_ABI_TOKEN, JSON_INVALID}
      [] name = "rpc-url" -> {RPC_URL}

\* newValue || dflt, for a text kept as a TLA+ string / as characters
OrStr(v, dflt) == IF v = NULL \/ v[1] = "" THEN dflt ELSE v[1]

OrChars(v, dflt) == IF v = NULL \/ v[1] = <<>> THEN dflt ELSE v[1]

\* the fields set by the constructor
constructor(tg) ==
    [loading |-> FALSE, result |-> NULL, error |-> NULL, abi |-> NULL,
     methodData |-> NULL, contractAddress |-> "", chainId |-> CHAIN_MAINNET_HEX,
     methodName |-> "", methodArgs |-> <<>>, abiUrl |-> "", rpcUrl |-> "",
     isReadOnly |-> (tg = "contract-read")]

\* what a synchronous stretch of a handler did besides changing the fields:
\* the events it emitted, the messages of the failures it met, the
\* invocations it left suspended
Eff(t) ==
    [this |-> t, events |-> <<>>, failure |-> <<>>, newCalls |-> <<>>, newFetches |-> <<>>]

\* a request to the wallet provider or to the RPC endpoint
Request(via, method, chainId, from, to, data, chain) ==
    [via |-> via, method |-> method, chainId |-> chainId, from |-> from, to |-> to,
     data |-> data, walletChain |-> chain]

\* ------------------------------------------------------ ABI method resolver
\* Array.prototype.find: the first entry with type "function" and the name
\* a find that matches on the name alone: the first entry from i on, of
\* whatever type, that carries it
FindEntryNamed(abi, name, i) ==
    IF \E k \in i..Len(abi) : abi[k].name = name
    THEN Some(abi[CHOOSE k \in i..Len(abi) :
                     abi[k].name = name /\ \A j \in i..(k - 1) : abi[j].name # name])
    ELSE NULL

RECURSIVE FindMethod(_, _, _)
FindMethod(abi, name, i) ==
    IF i > Len(abi) THEN NULL
    ELSE IF abi[i].type = "function" /\ abi[i].name = name THEN Some(abi[i])
    ELSE FindMethod(abi, name, i + 1)

NotFoundMsg(name) == Msg3("Method '", name, "' not found in ABI")

\* a resolver that takes every method that is not payable for a read
parseMethodReadOnlyUnlessPayable(t) ==
    IF t.abi = NULL \/ t.methodName = "" THEN t
    ELSE LET method == FindMethod(t.abi[1], t.methodName, 1)
         IN  IF method = NULL THEN [t EXCEPT !.error = Some(NotFoundMsg(t.methodName))]
             ELSE [t EXCEPT !.methodData = method,
                            !.isReadOnly = (method[1].stateMutability # "payable"),
                            !.error = NULL]

parseMethodFromAbi(t) ==
    IF t.abi = NULL \/ t.methodName = "" THEN t
    ELSE LET method == FindMethod(t.abi[1], t.methodName, 1)
         IN  IF method = NULL THEN [t EXCEPT !.error = Some(NotFoundMsg(t.methodName))]
             ELSE [t EXCEPT !.methodData = method,
                            !.isReadOnly = (method[1].stateMutability \in {"view", "pure"}),
                            !.error = NULL]

\* the message parseMethodFromAbi stores when it fails, else NULL
parseFailure(t) ==
    IF t.abi # NULL /\ t.methodName # "" /\ FindMethod(t.abi[1], t.methodName, 1) = NULL
    THEN Some(NotFoundMsg(t.methodName)) ELSE NULL

\* --------------------------------------------------------------- fetchAbi
\* fetchAbi() up to its first await: loading is set and the fetch is started
fetchAbi(t, thenRead) ==
    IF t.abiUrl = "" THEN Eff(t)
    ELSE [Eff([t EXCEPT !.loading = TRUE]) EXCEPT
            !.newFetches = <<[pc |-> "fetch", url |-> t.abiUrl, thenRead |-> thenRead]>>]

\* ------------------------------------------------- call attempts: helpers
\* what eth_call (wallet or RPC) may answer: empty, a word, something that is not hex
CallResults ==
    {<<"0", "x">>, <<"0", "x">> \o PadStart(<<"7", "b">>, 64, "0"), <<"0", "x", "z", "z">>}

MISSING_INFO == "Missing required contract information"

NO_WALLET == "Please install a wallet extension like MetaMask"

NOT_CONNECTED == "Please connect your wallet first"

NO_TRANSPORT ==
    "No wallet extension found and no RPC URL provided. Please install MetaMask or provide an rpc-url attribute."

SWITCH_FAILED == "Failed to switch chain: "

ErrorEvent(kind) ==
    IF kind = "contract-read" THEN "contract-read-error" ELSE "contract-call-error"

SuccessEvent(kind) ==
    IF kind = "contract-read" THEN "contract-read-success" ELSE "contract-call-success"

\* an invocation past the pre-checks, suspended at pc or settled
Attempt(kind, pc, reqs, data) ==
    [kind |-> kind, pc |-> pc, accounts |-> <<>>, data |-> data, reqs |-> reqs,
     replies |-> <<>>, failure |-> NULL, events |-> <<>>]

\* the pending request of the invocation a was answered: resolved or rejected
Answered(a, reply) == [a EXCEPT !.replies = @ \o <<reply>>]

\* a catch block that sends the failed request once more before giving up
catchRetriesOnce(t, a, msg) ==
    IF Len(a.reqs) > 0 /\ Len(a.replies) = Len(a.reqs)
       /\ (Len(a.reqs) = 1 \/ a.reqs[Len(a.reqs) - 1] # a.reqs[Len(a.reqs)])
    THEN [this |-> t, call |-> [a EXCEPT !.reqs = @ \o <<a.reqs[Len(a.reqs)]>>]]
    ELSE [this |-> [t EXCEPT !.error = Some(msg), !.loading = FALSE],
          call |-> [a EXCEPT !.pc = "error", !.failure = Some(msg),
                      !.events = @ \o <<[type |-> ErrorEvent(a.kind),
                                         detail |-> [error |-> msg]]>>]]

\* the catch block of callContract / readContract
catch(t, a, msg) ==
    LET t1 == [t EXCEPT !.error = Some(msg), !.loading = FALSE]
        ev == [type |-> ErrorEvent(a.kind), detail |-> [error |-> msg]]
    IN  [this |-> t1,
         call |-> [a EXCEPT !.pc = "error", !.failure = Some(msg), !.events = @ \o <<ev>>]]

\* a success path that forgets to reset the loading flag
succeedKeepsLoading(t, a, value) ==
    LET t1 == [t EXCEPT !.result = value]
        detail == IF a.kind = "contract-read"
                  THEN [result |-> t1.result, method |-> t1.methodName, args |-> t1.methodArgs]
                  ELSE [result |-> t1.result, method |-> t1.methodName, args |-> t1.methodArgs,
                        isReadOnly |-> t1.isReadOnly]
        ev == [type |-> SuccessEvent(a.kind), detail |-> detail]
    IN  [this |-> t1, call |-> [a EXCEPT !.pc = "success", !.events = @ \o <<ev>>]]

\* the end of the try block: the result is stored and the success event emitted
succeed(t, a, value) ==
    LET t1 == [t EXCEPT !.result = value, !.loading = FALSE]
        detail == IF a.kind = "contract-read"
                  THEN [result |-> t1.result, method |-> t1.methodName, args |-> t1.methodArgs]
                  ELSE [result |-> t1.result, method |-> t1.methodName, args |-> t1.methodArgs,
                        isReadOnly |-> t1.isReadOnly]
        ev == [type |-> SuccessEvent(a.kind), detail |-> detail]
    IN  [this |-> t1, call |-> [a EXCEPT !.pc = "success", !.events = @ \o <<ev>>]]

\* the fields at the start of the try block of callContract / readContract
tryStart(t) == [t EXCEPT !.loading = TRUE, !.result = NULL, !.error = NULL]

\* const data = methodSignature + encodedArgs: [ok, data, error]
encodeCall(t) ==
    LET enc == encodeArguments(t)
    IN  [ok |-> enc.ok, error |-> enc.error,
         data |-> [selector |-> encodeMethodSignature(t), args |-> enc.hex]]

\* --------------------------------------------------- ContractCall.callContract
\* a callContract() that enters its try block before it checks anything
callContractStartsFirst(t, eth, chain) ==
    IF ~eth THEN
        [Eff([tryStart(t) EXCEPT !.error = Some(Msg1(NO_WALLET))]) EXCEPT
            !.failure = Some(Msg1(NO_WALLET))]
    ELSE IF t.contractAddress = "" \/ t.methodName = "" \/ t.methodData = NULL THEN
        [Eff([tryStart(t) EXCEPT !.error = Some(Msg1(MISSING_INFO))]) EXCEPT
            !.failure = Some(Msg1(MISSING_INFO))]
    ELSE
        [Eff(tryStart(t)) EXCEPT
            !.newCalls = <<Attempt("contract-call", "eth_accounts",
                             <<Request("wallet", "eth_accounts", <<>>, "", "", NULL, chain)>>, NULL)>>]

\* callContract() up to its first await
callContract(t, eth, chain) ==
    IF ~eth THEN
        [Eff([t EXCEPT !.error = Some(Msg1(NO_WALLET))]) EXCEPT !.failure = Some(Msg1(NO_WALLET))]
    ELSE IF t.contractAddress = "" \/ t.methodName = "" \/ t.methodData = NULL THEN
        [Eff([t EXCEPT !.error = Some(Msg1(MISSING_INFO))]) EXCEPT
            !.failure = Some(Msg1(MISSING_INFO))]
    ELSE
        [Eff(tryStart(t)) EXCEPT
            !.newCalls = <<Attempt("contract-call", "eth_accounts",
                             <<Request("wallet", "eth_accounts", <<>>, "", "", NULL, chain)>>, NULL)>>]

\* a dispatch that sends the call whether or not the encoding threw
dispatchUnchecked(t, a, e, chain) ==
    [this |-> t,
     call |-> [a EXCEPT !.pc = IF t.isReadOnly THEN "eth_call" ELSE "eth_sendTransaction",
                 !.data = Some(e.data),
                 !.reqs = @ \o <<Request("wallet",
                                         IF t.isReadOnly THEN "eth_call"
                                         ELSE "eth_sendTransaction",
                                         <<>>, IF t.isReadOnly THEN "" ELSE a.accounts[1],
                                         t.contractAddress, Some(e.data), chain)>>]]

\* callContract() from "Encode method call" to the await of the dispatch; e is
\* the encoded call
dispatch(t, a, e, chain) ==
    IF ~e.ok THEN catch(t, a, e.error)
    ELSE IF t.isReadOnly THEN
        [this |-> t,
         call |-> [a EXCEPT !.pc = "eth_call", !.data = Some(e.data),
                     !.reqs = @ \o <<Request("wallet", "eth_call", <<>>, "",
                                             t.contractAddress, Some(e.data), chain)>>]]
    ELSE
        [this |-> t,
         call |-> [a EXCEPT !.pc = "eth_sendTransaction", !.data = Some(e.data),
                     !.reqs = @ \o <<Request("wallet", "eth_sendTransaction", <<>>,
                                             a.accounts[1], t.contractAddress,
                                             Some(e.data), chain)>>]]

dispatchCall(t, a, chain) == dispatch(t, a, encodeCall(t), chain)

\* a callContract() that asks for the chain whatever eth_accounts answered
checkAccountsSkipped(t, a, accounts, chain) ==
    [this |-> t,
     call |-> [a EXCEPT !.pc = "eth_chainId", !.accounts = accounts,
                 !.reqs = @ \o <<Request("wallet", "eth_chainId", <<>>, "", "", NULL, chain)>>]]

\* callContract() from the answer of eth_accounts to the next await
checkAccounts(t, a, accounts, chain) ==
    IF Len(accounts) = 0 THEN catch(t, a, Msg1(NOT_CONNECTED))
    ELSE [this |-> t,
          call |-> [a EXCEPT !.pc = "eth_chainId", !.accounts = accounts,
                      !.reqs = @ \o <<Request("wallet", "eth_chainId", <<>>, "", "", NULL,
                                              chain)>>]]

\* a call that proceeds to the dispatch although the chain switch failed
switchChainSwallowed(t, a, msg, chain) == dispatchCall(t, a, chain)

\* switchChain() rejected with msg: its catch block rethrows with the prefix,
\* and the catch block of callContract settles the invocation
switchChainFailed(t, a, msg, chain) == catch(t, a, Msg2(SWITCH_FAILED, msg))

\* callContract() from the answer of eth_chainId to the next await
checkChain(t, a, currentChainId, chain) ==
    IF currentChainId # t.chainId THEN
        [this |-> t,
         call |-> [a EXCEPT !.pc = "wallet_switchEthereumChain",
                     !.reqs = @ \o <<Request("wallet", "wallet_switchEthereumChain",
                                             t.chainId, "", "", NULL, chain)>>]]
    ELSE dispatchCall(t, a, chain)

\* --------------------------------------------------- ContractRead.readContract
\* callViaRpc(data) up to its fetch
callViaRpc(t, a, data, chain) ==
    IF t.rpcUrl = "" THEN catch(t, a, Msg1("RPC URL not configured"))
    ELSE [this |-> t,
          call |-> [a EXCEPT !.pc = "rpc",
                      !.reqs = @ \o <<Request("rpc", "eth_call", <<>>, "",
                                              t.contractAddress, Some(data), chain)>>]]

\* a transport selection that prefers the configured endpoint to the wallet
readDispatchRpcFirst(t, a, e, eth, chain) ==
    IF ~e.ok THEN catch(t, a, e.error)
    ELSE IF t.rpcUrl # "" THEN callViaRpc(t, a, e.data, chain)
    ELSE IF eth THEN
        [this |-> t,
         call |-> [a EXCEPT !.pc = "eth_call",
                     !.reqs = <<Request("wallet", "eth_call", <<>>, "",
                                        t.contractAddress, Some(e.data), chain)>>]]
    ELSE catch(t, a, Msg1(NO_TRANSPORT))

\* readContract(), the try block from the transport selection to the first
\* await; e is the encoded call
readDispatch(t, a, e, eth, chain) ==
    IF ~e.ok THEN catch(t, a, e.error)
    ELSE IF eth THEN
        [this |-> t,
         call |-> [a EXCEPT !.pc = "eth_call",
                     !.reqs = <<Request("wallet", "eth_call", <<>>, "",
                                        t.contractAddress, Some(e.data), chain)>>]]
    ELSE IF t.rpcUrl # "" THEN callViaRpc(t, a, e.data, chain)
    ELSE catch(t, a, Msg1(NO_TRANSPORT))

\* readContract(), the try block up to the first await; e is the encoded call
readTry(t, e, eth, chain) ==
    readDispatch(t, Attempt("contract-read", "start", <<>>, Some(e.data)), e, eth, chain)

\* the invocation r = [this, call] as the effect of the handler that made it
Invoked(r) ==
    [this |-> r.this, events |-> r.call.events, failure |-> r.call.failure,
     newCalls |-> <<r.call>>, newFetches |-> <<>>]

\* readContract() up to its first await, or to its end when it fails before
readContract(t, eth, chain) ==
    IF t.contractAddress = "" \/ t.methodName = "" \/ t.methodData = NULL THEN
        [Eff([t EXCEPT !.error = Some(Msg1(MISSING_INFO))]) EXCEPT
            !.failure = Some(Msg1(MISSING_INFO))]
    ELSE Invoked(readTry(tryStart(t), encodeCall(tryStart(t)), eth, chain))

\* ------------------------------------------------------ lifecycle handlers
\* attributeChangedCallback(name, oldValue, newValue) with oldValue # newValue
attributeChangedCallback(tg, t, name, newValue) ==
    CASE name = "contract-address" ->
            Eff([t EXCEPT !.contractAddress = OrStr(newValue, "")])
      [] name = "chain-id" ->
            Eff([t EXCEPT !.chainId = IF tg = "contract-read" THEN normalizeChainId(newValue)
                                      ELSE OrChars(newValue, CHAIN_MAINNET_HEX)])
      [] name = "method-name" ->
            LET t1 == [t EXCEPT !.methodName = OrStr(newValue, "")]
            IN  [Eff(parseMethodFromAbi(t1)) EXCEPT !.failure = parseFailure(t1)]
      [] name = "method-args" ->
            LET j == JSONParse(OrStr(newValue, ""))
            IN  Eff([t EXCEPT !.methodArgs = IF OrStr(newValue, "") # "" /\ j.ok
                                             THEN j.value ELSE <<>>])
      [] name = "abi-url" ->
            fetchAbi([t EXCEPT !.abiUrl = OrStr(newValue, "")], FALSE)
      [] name = "abi" ->
            LET j == JSONParse(OrStr(newValue, ""))
                t1 == [t EXCEPT !.abi = IF OrStr(newValue, "") = "" THEN NULL
                                        ELSE IF j.ok THEN Some(j.value) ELSE NULL]
            IN  IF OrStr(newValue, "") # "" /\ ~j.ok THEN Eff(t1)
                ELSE [Eff(parseMethodFromAbi(t1)) EXCEPT !.failure = parseFailure(t1)]
      [] name = "rpc-url" ->
            Eff([t EXCEPT !.rpcUrl = OrStr(newValue, "")])

\* the message of a failed resolution before the failures of the effect r
WithParseFailure(t, r) == [r EXCEPT !.failure = parseFailure(t) \o @]

\* a connectedCallback that resolves the method and never reads by itself
connectedResolveWithoutRead(tg, t, eth, chain) ==
    IF t.abiUrl # "" /\ t.abi = NULL THEN fetchAbi(t, FALSE)
    ELSE IF t.abi # NULL THEN WithParseFailure(t, Eff(parseMethodFromAbi(t)))
    ELSE Eff(t)

\* connectedCallback() after the attributes were read into the fields t
connectedResolve(tg, t, eth, chain) ==
    IF t.abiUrl # "" /\ t.abi = NULL THEN fetchAbi(t, tg = "contract-read")
    ELSE IF t.abi # NULL THEN
        IF tg = "contract-read" /\ parseMethodFromAbi(t).methodData # NULL
        THEN WithParseFailure(t, readContract(parseMethodFromAbi(t), eth, chain))
        ELSE WithParseFailure(t, Eff(parseMethodFromAbi(t)))
    ELSE Eff(t)

\* connectedCallback()
connectedCallback(tg, t, at, eth, chain) ==
    connectedResolve(tg,
        [t EXCEPT
           !.contractAddress = OrStr(at["contract-address"], ""),
           !.chainId = IF tg = "contract-read" THEN normalizeChainId(at["chain-id"])
                       ELSE OrChars(at["chain-id"], CHAIN_MAINNET_HEX),
           !.methodName = OrStr(at["method-name"], ""),
           !.abiUrl = OrStr(at["abi-url"], ""),
           !.rpcUrl = IF tg = "contract-read" THEN OrStr(at["rpc-url"], "") ELSE @,
           !.methodArgs = IF OrStr(at["method-args"], "") # ""
                               /\ JSONParse(OrStr(at["method-args"], "")).ok
                            THEN JSONParse(OrStr(at["method-args"], "")).value ELSE <<>>,
           !.abi = IF OrStr(at["abi"], "") # "" /\ JSONParse(OrStr(at["abi"], "")).ok
                   THEN Some(JSONParse(OrStr(at["abi"], "")).value) ELSE NULL],
        eth, chain)

\* the callback given to fetchAbi().then in connectedCallback, run after
\* fetchAbi emitted ev and met the failures fl
thenRead(t, f, ev, fl, eth, chain) ==
    IF f.thenRead /\ t.methodData # NULL
    THEN [readContract(t, eth, chain) EXCEPT !.events = <<ev>> \o @, !.failure = fl \o @]
    ELSE [Eff(t) EXCEPT !.events = <<ev>>, !.failure = fl]

\* a fetchAbi whose failure drops the ABI the element held
fetchAbiReturnDropsAbi(t, f, body, error, eth, chain) ==
    IF body # NULL
    THEN thenRead([parseMethodFromAbi([t EXCEPT !.abi = body]) EXCEPT !.loading = FALSE], f,
                  [type |-> "abi-loaded", detail |-> [abi |-> body]],
                  parseFailure([t EXCEPT !.abi = body]), eth, chain)
    ELSE thenRead([t EXCEPT !.abi = NULL, !.error = Some(error), !.loading = FALSE], f,
                  [type |-> "abi-error", detail |-> [error |-> error]],
                  <<error>>, eth, chain)

\* fetchAbi() after its await.  body is the ABI the url served (<<abi>>) when
\* the response was ok and held JSON; otherwise error is the message thrown
fetchAbiReturn(t, f, body, error, eth, chain) ==
    IF body # NULL
    THEN thenRead([parseMethodFromAbi([t EXCEPT !.abi = body]) EXCEPT !.loading = FALSE], f,
                  [type |-> "abi-loaded", detail |-> [abi |-> body]],
                  parseFailure([t EXCEPT !.abi = body]), eth, chain)
    ELSE thenRead([t EXCEPT !.error = Some(error), !.loading = FALSE], f,
                  [type |-> "abi-error", detail |-> [error |-> error]],
                  <<error>>, eth, chain)

\* ------------------------------------------------------------------ actions
\* The markup an element is created from: its attributes, in document order.
\* The bare element, the README example with each method name, and the same
\* element taking its ABI from a url.
Markups ==
    { <<>> }
    \cup { << <<"contract-address", ADDRESS>>, <<"method-name", m>>,
              <<"abi", JSON_ABI_COUNTER>> >> : m \in MethodNameAttrs }
    \cup { << <<"contract-address", ADDRESS>>, <<"method-name", "number">>,
              <<"abi-url", ABI_URL>> >> }

\* the attributes of a markup
MarkupAttrs(markup) ==
    [n \in AttrNames |->
        IF \E i \in 1..Len(markup) : markup[i][1] = n
        THEN Some(markup[CHOOSE i \in 1..Len(markup) : markup[i][1] = n][2])
        ELSE NULL]

\* the upgrade of an element: after the constructor, attributeChangedCallback
\* runs for each attribute of the markup, in order, within the same task
RECURSIVE Upgrade(_, _, _, _)
Upgrade(tg, eff, markup, i) ==
    IF i > Len(markup) THEN eff
    ELSE LET e == attributeChangedCallback(tg, eff.this, markup[i][1], Some(markup[i][2]))
         IN  Upgrade(tg, [e EXCEPT !.newFetches = eff.newFetches \o @], markup, i + 1)

Init ==
    /\ tag \in Tags
    /\ ethereum \in BOOLEAN
    /\ walletChain \in WalletChains
    /\ \E markup \in Markups :
         LET eff == Upgrade(tag, Eff(constructor(tag)), markup, 1)
         IN  /\ attrs = MarkupAttrs(markup)
             /\ this = eff.this
             /\ fetches = eff.newFetches
             /\ step = [failure |-> eff.failure, events |-> <<>>]
    /\ calls = <<>>
    /\ nOps = 0
    /\ codec = NULL

\* a synchronous handler ran: its effect becomes the next state
Apply(eff) ==
    /\ this' = eff.this
    /\ calls' = calls \o eff.newCalls
    /\ fetches' = fetches \o eff.newFetches
    /\ step' = [failure |-> eff.failure, events |-> eff.events]

\* setAttribute / removeAttribute on an observed attribute
AttributeChanged ==
    /\ nOps < MaxOps
    /\ \E name \in observedAttributes(tag) :
         \E newValue \in {NULL} \cup {Some(v) : v \in AttrValues(name)} :
            /\ newValue # attrs[name]
            /\ attrs' = [attrs EXCEPT ![name] = newValue]
            /\ Apply(attributeChangedCallback(tag, this, name, newValue))
    /\ nOps' = nOps + 1
    /\ UNCHANGED <<codec, tag, ethereum, walletChain>>

\* the element is inserted into a document
Connected ==
    /\ nOps < MaxOps
    /\ Apply(connectedCallback(tag, this, attrs, ethereum, walletChain))
    /\ nOps' = nOps + 1
    /\ UNCHANGED <<codec, tag, attrs, ethereum, walletChain>>

\* the button is clicked, or callContract() is called
CallContract ==
    /\ tag = "contract-call"
    /\ nOps < MaxOps
    /\ nOps' = nOps + 1
    /\ Apply(callContract(this, ethereum, walletChain))
    /\ UNCHANGED <<codec, tag, attrs, ethereum, walletChain>>

\* readContract() is called
ReadContract ==
    /\ tag = "contract-read"
    /\ nOps < MaxOps
    /\ nOps' = nOps + 1
    /\ Apply(readContract(this, ethereum, walletChain))
    /\ UNCHANGED <<codec, tag, attrs, ethereum, walletChain>>

\* a fetchAbi invocation ran to its end with the effect eff
Settle(i, eff) ==
    /\ this' = eff.this
    /\ calls' = calls \o eff.newCalls
    /\ fetches' = [fetches EXCEPT ![i].pc = "done"]
    /\ step' = [failure |-> eff.failure, events |-> eff.events]

\* the ABI fetch completes: ok with a JSON body, or not
FetchAbiReturn ==
    \E i \in 1..Len(fetches) :
        /\ fetches[i].pc = "fetch"
        /\ \E o \in { [body |-> Some(IF fetches[i].url = ABI_URL_2 THEN AbiToken ELSE AbiCounter),
                       error |-> <<>>],
                      [body |-> NULL, error |-> Msg2("Failed to fetch ABI: ", "Not Found")],
                      [body |-> NULL, error |-> Msg1("Unexpected token < in JSON at position 0")] } :
              Settle(i, fetchAbiReturn(this, fetches[i], o.body, o.error, ethereum, walletChain))
        /\ UNCHANGED <<codec, tag, attrs, ethereum, walletChain, nOps>>

\* setAttribute("abi-url", url) with one of two addresses, or
\* setAttribute("rpc-url", url) where the element observes it
UrlChanged ==
    /\ nOps < MaxOps
    /\ \E name \in {"abi-url", "rpc-url"} \cap observedAttributes(tag) :
         \E url \in (IF name = "abi-url" THEN {ABI_URL, ABI_URL_2} ELSE {RPC_URL}) :
            /\ attrs[name] # Some(url)
            /\ attrs' = [attrs EXCEPT ![name] = Some(url)]
            /\ Apply(attributeChangedCallback(tag, this, name, Some(url)))
    /\ nOps' = nOps + 1
    /\ UNCHANGED <<codec, tag, ethereum, walletChain>>

\* an invocation resumed after an await: r = [this, call] is where it got to
Resume(i, r) ==
    /\ this' = r.this
    /\ calls' = [calls EXCEPT ![i] = r.call]
    /\ step' = [failure |-> r.call.failure,
                events |-> SubSeq(r.call.events, Len(calls[i].events) + 1, Len(r.call.events))]

\* the wallet answers eth_accounts
AccountsReturn ==
    \E i \in 1..Len(calls) :
        /\ calls[i].pc = "eth_accounts"
        /\ \/ \E accounts \in {<<>>, <<ACCOUNT, OTHER_ACCOUNT>>} :
                Resume(i, checkAccounts(this, Answered(calls[i], "resolved"), accounts,
                                        walletChain))
           \/ Resume(i, catch(this, Answered(calls[i], "rejected"), Msg1(WALLET_REJECTED)))
        /\ UNCHANGED <<codec, tag, attrs, ethereum, walletChain, fetches, nOps>>

\* the wallet answers eth_chainId
ChainIdReturn ==
    \E i \in 1..Len(calls) :
        /\ calls[i].pc = "eth_chainId"
        /\ \/ Resume(i, checkChain(this, Answered(calls[i], "resolved"), walletChain, walletChain))
           \/ Resume(i, catch(this, Answered(calls[i], "rejected"), Msg1(WALLET_REJECTED)))
        /\ UNCHANGED <<codec, tag, attrs, ethereum, walletChain, fetches, nOps>>

\* the chainId parameter of the pending wallet_switchEthereumChain request
SwitchParam(a) == a.reqs[Len(a.reqs)].chainId

\* the wallet answers wallet_switchEthereumChain: it switches to a chain it
\* knows by its 0x-prefixed hexadecimal id, and may reject any request
SwitchReturn ==
    \E i \in 1..Len(calls) :
        /\ calls[i].pc = "wallet_switchEthereumChain"
        /\ \/ /\ SwitchParam(calls[i]) \in WalletChains
              /\ walletChain' = SwitchParam(calls[i])
              /\ Resume(i,
                        dispatchCall(this, Answered(calls[i], "resolved"), SwitchParam(calls[i])))
           \/ /\ walletChain' = walletChain
              /\ Resume(i,
                        switchChainFailed(this, Answered(calls[i], "rejected"), WALLET_REJECTED,
                                          walletChain))
        /\ UNCHANGED <<codec, tag, attrs, ethereum, fetches, nOps>>

\* the value decoded from an eth_call answer is stored, or decoding throws
decoded(t, a, result) ==
    LET d == decodeResult(t, Some(result))
    IN  IF d.ok THEN succeed(t, a, d.value) ELSE catch(t, a, d.error)

\* the wallet answers eth_call
EthCallReturn ==
    \E i \in 1..Len(calls) :
        /\ calls[i].pc = "eth_call"
        /\ \/ \E result \in CallResults :
                Resume(i, decoded(this, Answered(calls[i], "resolved"), result))
           \/ IF calls[i].kind = "contract-read" /\ this.rpcUrl # ""
              THEN Resume(i,
                          callViaRpc(this, Answered(calls[i], "rejected"), calls[i].data[1],
                                     walletChain))
              ELSE Resume(i, catch(this, Answered(calls[i], "rejected"), Msg1(WALLET_REJECTED)))
        /\ UNCHANGED <<codec, tag, attrs, ethereum, walletChain, fetches, nOps>>

\* the wallet answers eth_sendTransaction
SendTransactionReturn ==
    \E i \in 1..Len(calls) :
        /\ calls[i].pc = "eth_sendTransaction"
        /\ \/ Resume(i, succeed(this, Answered(calls[i], "resolved"),
                                  Some(JsTx("0x9fc76417374aa880d4449a1f7f31ec597f00b1f6f3dd2d66f4c9c6c445836d8b"))))
           \/ Resume(i, catch(this, Answered(calls[i], "rejected"), Msg1(WALLET_REJECTED)))
        /\ UNCHANGED <<codec, tag, attrs, ethereum, walletChain, fetches, nOps>>

\* the RPC endpoint answers: a result, a JSON-RPC error, or a status that is not ok
RpcReturn ==
    \E i \in 1..Len(calls) :
        /\ calls[i].pc = "rpc"
        /\ \/ \E result \in CallResults :
                Resume(i, decoded(this, Answered(calls[i], "resolved"), result))
           \/ Resume(i, catch(this, Answered(calls[i], "rejected"),
                               Msg2("RPC error: ", "execution reverted")))
           \/ Resume(i, catch(this, Answered(calls[i], "rejected"),
                               Msg2("RPC request failed: ", "Bad Gateway")))
        /\ UNCHANGED <<codec, tag, attrs, ethereum, walletChain, fetches, nOps>>

Next ==
    \/ AttributeChanged
    \/ Connected
    \/ CallContract
    \/ ReadContract
    \/ FetchAbiReturn
    \/ AccountsReturn
    \/ ChainIdReturn
    \/ SwitchReturn
    \/ EthCallReturn
    \/ SendTransactionReturn
    \/ RpcReturn

Spec == Init /\ [][Next]_vars

\* the transport answers an outstanding wallet, RPC or fetch request
Returns ==
    \/ FetchAbiReturn
    \/ AccountsReturn
    \/ ChainIdReturn
    \/ SwitchReturn
    \/ EthCallReturn
    \/ SendTransactionReturn
    \/ RpcReturn

\* the element under calls and changes of its urls, with a fair transport:
\* every outstanding request is answered in the end
FairSpec ==
    /\ Init
    /\ [][CallContract \/ ReadContract \/ UrlChanged \/ Returns]_vars
    /\ WF_vars(FetchAbiReturn) /\ WF_vars(AccountsReturn) /\ WF_vars(ChainIdReturn)
    /\ WF_vars(SwitchReturn) /\ WF_vars(EthCallReturn) /\ WF_vars(SendTransactionReturn)
    /\ WF_vars(RpcReturn)

\* the element under changes of its urls and the completions of the fetches
FetchSpec == Init /\ [][UrlChanged \/ FetchAbiReturn]_vars

\* -------------------------------------------------- the encoder and decoder
MAX_UINT256 ==
    <<"1", "1", "5", "7", "9", "2", "0", "8", "9", "2", "3", "7", "3", "1", "6", "1", "9",
      "5", "4", "2", "3", "5", "7", "0", "9", "8", "5", "0", "0", "8", "6", "8", "7", "9",
      "0", "7", "8", "5", "3", "2", "6", "9", "9", "8", "4", "6", "6", "5", "6", "4", "0",
      "5", "6", "4", "0", "3", "9", "4", "5", "7", "5", "8", "4", "0", "0", "7", "9", "1",
      "3", "1", "2", "9", "6", "3", "9", "9", "3", "5">>

ADDRESS_MIXED ==
    <<"0", "x", "8", "C", "9", "E", "C", "9", "c", "1", "3", "8", "1", "2", "C", "7", "F",
      "9", "F", "2", "6", "A", "B", "9", "3", "4", "d", "4", "b", "F", "3", "6", "2", "0",
      "6", "2", "4", "0", "d", "D", "A", "8">>

ADDRESS_BARE ==
    <<"5", "2", "9", "0", "8", "4", "0", "0", "0", "9", "8", "5", "2", "7", "8", "8", "6",
      "E", "0", "F", "7", "0", "3", "0", "0", "6", "9", "8", "5", "7", "D", "2", "E", "4",
      "1", "6", "9", "E", "E", "7">>

ADDRESS_LOWER ==
    <<"0", "x", "d", "e", "7", "0", "9", "f", "2", "1", "0", "2", "3", "0", "6", "2", "2",
      "0", "9", "2", "1", "0", "6", "0", "3", "1", "4", "7", "1", "5", "6", "2", "9", "0",
      "8", "0", "e", "2", "f", "b", "7", "7">>

CodecValues ==
    {JsNumber(0), JsNumber(5), JsNumber(255), JsNumber(2147483647)}
    \cup {JsString(s) : s \in {<<"0">>, <<"0", "0", "7">>, <<"-", "5">>, <<"0", "x", "f", "f">>,
                               <<"z", "z">>, Repeat("z", 32), Repeat("z", 33),
                               \* 2^64
                               <<"1", "8", "4", "4", "6", "7", "4", "4", "0", "7", "3", "7",
                                 "0", "9", "5", "5", "1", "6", "1", "6">>,
                               MAX_UINT256,
                               \* 2^256
                               <<"1", "1", "5", "7", "9", "2", "0", "8", "9", "2", "3", "7",
                                 "3", "1", "6", "1", "9", "5", "4", "2", "3", "5", "7", "0",
                                 "9", "8", "5", "0", "0", "8", "6", "8", "7", "9", "0", "7",
                                 "8", "5", "3", "2", "6", "9", "9", "8", "4", "6", "6", "5",
                                 "6", "4", "0", "5", "6", "4", "0", "3", "9", "4", "5", "7",
                                 "5", "8", "4", "0", "0", "7", "9", "1", "3", "1", "2", "9",
                                 "6", "3", "9", "9", "3", "6">>,
                               ADDRESS_MIXED, ADDRESS_BARE, ADDRESS_LOWER,
                               \* the address in upper case, and one of 78 hex digits
                               <<"0", "x", "D", "E", "7", "0", "9", "F", "2", "1", "0", "2",
                                 "3", "0", "6", "2", "2", "0", "9", "2", "1", "0", "6", "0",
                                 "3", "1", "4", "7", "1", "5", "6", "2", "9", "0", "8", "0",
                                 "E", "2", "F", "B", "7", "7">>,
                               ADDRESS_LOWER \o Tail(Tail(ADDRESS_LOWER))}}

MaxArgs == 2


\* the inputs a method declares after its first, and the arguments given for
\* them: a string, an address, a string, ...
LaterType(i) == IF i % 2 = 0 THEN "string" ELSE "address"

LaterArg(i) == IF i % 2 = 0 THEN JsString(<<"z", "z">>) ELSE JsString(ADDRESS_BARE)

\* an element whose resolved method declares nIn inputs, the first of the
\* drawn type, and as many outputs of the same types, with nArgs arguments as
\* its methodArgs, the first the drawn value
CodecInit ==
    /\ tag \in Tags
    /\ ethereum = FALSE
    /\ walletChain = CHAIN_MAINNET_HEX
    /\ attrs = MarkupAttrs(<<>>)
    /\ calls = <<>>
    /\ fetches = <<>>
    /\ step = [failure |-> <<>>, events |-> <<>>]
    /\ nOps = 0
    /\ \E value \in CodecValues,
          type \in {"uint256", "uint", "address", "string", "bool", "uint8"},
          nIn \in 0..MaxArgs, nArgs \in 0..MaxArgs :
         /\ this = [constructor(tag) EXCEPT
                        !.methodName = "number",
                        !.methodData = Some(Fn("number", "view",
                                               [i \in 1..nIn |-> IF i = 1 THEN type
                                                                  ELSE LaterType(i)],
                                               [i \in 1..nIn |-> IF i = 1 THEN type
                                                                  ELSE LaterType(i)])),
                        !.methodArgs = [i \in 1..nArgs |-> IF i = 1 THEN value
                                                            ELSE LaterArg(i)]]
         /\ codec = [pc |-> "input", value |-> value, type |-> type,
                     word |-> NULL, back |-> NULL, data |-> NULL, call |-> NULL,
                     response |-> NULL, read |-> NULL]

\* encodeValue(value, type) on the drawn value
EncodeValue ==
    /\ codec # NULL /\ codec.pc = "input"
    /\ codec' = [codec EXCEPT !.pc = "encoded", !.word = Some(encodeValue(codec.value, codec.type))]
    /\ UNCHANGED <<tag, this, attrs, ethereum, walletChain, calls, fetches, step, nOps>>

\* decodeResult("0x" + word) for the method that returns the type
DecodeResult ==
    /\ codec # NULL /\ codec.pc = "encoded" /\ codec.word[1].ok
    /\ codec' = [codec EXCEPT
                     !.pc = "decoded",
                     !.back = Some(decodeResult(this, Some(<<"0", "x">> \o codec.word[1].hex)))]
    /\ UNCHANGED <<tag, this, attrs, ethereum, walletChain, calls, fetches, step, nOps>>

\* encodeArguments() on the element's methodData and methodArgs
EncodeArguments ==
    /\ codec # NULL
    /\ codec.pc = "decoded" \/ (codec.pc = "encoded" /\ ~codec.word[1].ok)
    /\ codec' = [codec EXCEPT !.pc = "done", !.data = Some(encodeArguments(this))]
    /\ UNCHANGED <<tag, this, attrs, ethereum, walletChain, calls, fetches, step, nOps>>

\* the call data built in the try block: methodSignature + encodedArgs
EncodeCall ==
    /\ codec # NULL /\ codec.pc = "done"
    /\ codec' = [codec EXCEPT !.pc = "called", !.call = Some(encodeCall(this))]
    /\ UNCHANGED <<tag, this, attrs, ethereum, walletChain, calls, fetches, step, nOps>>

\* the first word of a response: the drawn value when its encoding is one
\* word, else zero
FirstWord(c) ==
    IF c.word[1].ok /\ Len(c.word[1].hex) = 64 THEN c.word[1].hex ELSE Repeat("0", 64)

\* a response holding one 32-byte word for each of the k outputs, and one
\* word for a method without outputs
RECURSIVE Response(_, _)
Response(c, k) ==
    IF k <= 1 THEN <<"0", "x">> \o FirstWord(c)
    ELSE Response(c, k - 1) \o encodeValue(LaterArg(k), LaterType(k)).hex

\* decodeResult() on what the transport may hand to it: nothing, the empty
\* string, "0x", or a word per declared output
DecodeWords ==
    /\ codec # NULL /\ codec.pc = "called"
    /\ \E response \in {NULL, Some(<<>>), Some(<<"0", "x">>),
                       Some(Response(codec, Len(this.methodData[1].outputs)))} :
         codec' = [codec EXCEPT !.pc = "read", !.response = response,
                                !.read = Some(decodeResult(this, response))]
    /\ UNCHANGED <<tag, this, attrs, ethereum, walletChain, calls, fetches, step, nOps>>

CodecNext ==
    \/ EncodeValue
    \/ DecodeResult
    \/ EncodeArguments
    \/ EncodeCall
    \/ DecodeWords

CodecSpec == CodecInit /\ [][CodecNext]_vars


\* ------------------------------------------------------------------ claims
\* the requests that carry the encoded call to the wallet
DispatchMethods == {"eth_call", "eth_sendTransaction"}

LastReq(a) == a.reqs[Len(a.reqs)]

LastReply(a) == a.replies[Len(a.replies)]

\* in this step the pending request of invocation i was answered with reply
Replied(i, reply) ==
    /\ Len(calls'[i].replies) > Len(calls[i].replies)
    /\ LastReply(calls'[i]) = reply

\* in this step invocation i sent its encoded call to the wallet or the endpoint
Dispatched(i) ==
    /\ i > Len(calls) \/ Len(calls'[i].reqs) > Len(calls[i].reqs)
    /\ Len(calls'[i].reqs) > 0
    /\ LastReq(calls'[i]).data # NULL

\* the chain a chain id denotes, written in decimal or in 0x-prefixed hex
ChainNumber(s) ==
    IF StartsWith(ToLowerCase(s), <<"0", "x">>)
    THEN DigitsValue(SubSeq(s, 3, Len(s)), 16)
    ELSE DigitsValue(s, 10)

\* the chain-id the element is configured with: the attribute, or mainnet
ConfiguredChain == OrChars(attrs["chain-id"], CHAIN_MAINNET_HEX)

\* what the resolver returns for the fields' ABI and method name, if anything
Resolved(t) ==
    IF t.abi = NULL \/ t.methodName = "" THEN NULL ELSE FindMethod(t.abi[1], t.methodName, 1)

InputTypes(method) == [i \in 1..Len(method.inputs) |-> method.inputs[i].type]

Mutates(method) == method.stateMutability \notin {"view", "pure"}

\* C1: in contract-call, when the wallet answers eth_chainId with "0x1" to an
\* attempt of an element whose chain-id attribute is "11155111", the attempt
\* issues a wallet_switchEthereumChain request whose chainId is "0xaa36a7",
\* and it has issued no eth_call or eth_sendTransaction request before it.
C1_SwitchRequestCarriesHexChainId ==
    [][\A i \in 1..Len(calls) :
          (/\ tag = "contract-call"
           /\ attrs["chain-id"] = Some(CHAIN_SEPOLIA_DEC)
           /\ walletChain = CHAIN_MAINNET_HEX
           /\ calls[i].pc = "eth_chainId"
           /\ Replied(i, "resolved"))
          => /\ calls'[i].pc = "wallet_switchEthereumChain"
             /\ LastReq(calls'[i]).method = "wallet_switchEthereumChain"
             /\ LastReq(calls'[i]).chainId = CHAIN_SEPOLIA_HEX
             /\ \A k \in 1..Len(calls'[i].reqs) :
                    calls'[i].reqs[k].method \notin DispatchMethods]_vars

\* C2: every dispatch contract-call makes for a method whose stateMutability
\* is neither view nor pure, whether that method is the descriptor the element
\* holds or the one its ABI and method name resolve to, is an
\* eth_sendTransaction request to the wallet; contract-call sends nothing to
\* an RPC endpoint.
C2_MutatingMethodsAreSentAsTransactions ==
    [][\A i \in 1..Len(calls') :
          (tag = "contract-call" /\ Dispatched(i))
          => /\ LastReq(calls'[i]).via = "wallet"
             /\ (this'.methodData # NULL /\ Mutates(this'.methodData[1]))
                    => LastReq(calls'[i]).method = "eth_sendTransaction"
             /\ (Resolved(this') # NULL /\ Mutates(Resolved(this')[1]))
                    => LastReq(calls'[i]).method = "eth_sendTransaction"]_vars

\* C2's case: contract-call has sent setNumber(uint256), a nonpayable method
C2_Witness ==
    /\ tag = "contract-call"
    /\ \E i \in 1..Len(calls) :
          /\ calls[i].pc = "eth_sendTransaction"
          /\ LastReq(calls[i]).method = "eth_sendTransaction"
          /\ LastReq(calls[i]).data[1].selector.keccak256.name = "setNumber"
    /\ this.methodData # NULL /\ this.methodData[1].stateMutability = "nonpayable"

\* C3: when contract-read sends eth_call to the wallet, the attempt has asked
\* the wallet for its chain (eth_chainId) beforehand, and the wallet is on the
\* element's configured chainId.
C3_ReadChecksWalletChain ==
    [][\A i \in 1..Len(calls') :
          (tag = "contract-read" /\ Dispatched(i) /\ LastReq(calls'[i]).via = "wallet")
          => /\ \E k \in 1..Len(calls'[i].reqs) : calls'[i].reqs[k].method = "eth_chainId"
             /\ walletChain' = this'.chainId]_vars

\* C4: when the wallet answers eth_chainId of a contract-call attempt with the
\* chain that the configured chain-id denotes, in decimal or in 0x-prefixed
\* hex, the attempt issues no wallet_switchEthereumChain request.
C4_NoSwitchOnTheConfiguredChain ==
    [][\A i \in 1..Len(calls) :
          (/\ tag = "contract-call"
           /\ calls[i].pc = "eth_chainId"
           /\ Replied(i, "resolved")
           /\ ChainNumber(ConfiguredChain) = ChainNumber(walletChain))
          => \A k \in 1..Len(calls'[i].reqs) :
                 calls'[i].reqs[k].method # "wallet_switchEthereumChain"]_vars

\* an attempt whose chain switch was rejected is settled in error and has
\* sent neither eth_call nor eth_sendTransaction
SwitchRejectedAborts ==
    \A i \in 1..Len(calls) : \A k \in 1..Len(calls[i].replies) :
        (calls[i].reqs[k].method = "wallet_switchEthereumChain" /\ calls[i].replies[k] = "rejected")
        => /\ calls[i].pc = "error"
           /\ calls[i].failure # NULL
           /\ calls[i].failure[1][1] = SWITCH_FAILED
           /\ \A j \in 1..Len(calls[i].reqs) : calls[i].reqs[j].method \notin DispatchMethods

\* C5: when the wallet rejects the wallet_switchEthereumChain request of a
\* contract-call attempt, the attempt settles at once: the error field holds a
\* message that starts with "Failed to switch chain: ", loading is false, a
\* contract-call-error event carries the message, and neither then nor later
\* does the attempt hold an eth_call or eth_sendTransaction request.
C5_SwitchFailureAbortsTheCall ==
    [][/\ \A i \in 1..Len(calls) :
             (calls[i].pc = "wallet_switchEthereumChain" /\ Replied(i, "rejected"))
             => /\ this'.loading = FALSE
                /\ this'.error # NULL
                /\ this'.error[1][1] = SWITCH_FAILED
                /\ this'.error = calls'[i].failure
                /\ step'.events = <<[type |-> "contract-call-error",
                                     detail |-> [error |-> this'.error[1]]]>>
       /\ SwitchRejectedAborts']_vars

\* C5's case: the wallet rejected a switch to a chain it knows
C5_Witness ==
    \E i \in 1..Len(calls) : \E k \in 1..Len(calls[i].replies) :
        /\ calls[i].reqs[k].method = "wallet_switchEthereumChain"
        /\ calls[i].reqs[k].chainId = CHAIN_SEPOLIA_HEX
        /\ calls[i].replies[k] = "rejected"
        /\ calls[i].pc = "error"

\* C6: the selector of every call contract-call or contract-read dispatches
\* is the hash of name(types) of one function descriptor: the one the resolver
\* returns for the element's ABI and method name at the time of the dispatch.
C6_SelectorOfTheResolvedMethod ==
    [][\A i \in 1..Len(calls') :
          Dispatched(i)
          => /\ Resolved(this') # NULL
             /\ LastReq(calls'[i]).data[1].selector =
                    [keccak256 |-> [name |-> Resolved(this')[1].name,
                                    types |-> InputTypes(Resolved(this')[1])]]]_vars

\* C7: after a change of the abi or the method-name attribute the element
\* holds no result, and holds a method descriptor and a classification only if
\* the new attribute values resolve to them.
C7_AttributeChangeResetsResolution ==
    [][(attrs'["abi"] # attrs["abi"] \/ attrs'["method-name"] # attrs["method-name"])
       => /\ this'.result = NULL
          /\ this'.methodData = Resolved(this')
          /\ this'.isReadOnly = IF Resolved(this') = NULL THEN constructor(tag).isReadOnly
                                ELSE ~Mutates(Resolved(this')[1])]_vars

\* C8: in every reachable state whose method name is carried by no function
\* entry of its ABI, parseMethodFromAbi returns (it does not throw) with the
\* not-found message in the error field and isReadOnly at its initial value.
C8_NotFoundLeavesReadOnlyUnset ==
    (this.abi # NULL /\ this.methodName # "" /\ Resolved(this) = NULL)
    => /\ parseMethodFromAbi(this).error = Some(NotFoundMsg(this.methodName))
       /\ parseMethodFromAbi(this).isReadOnly = constructor(tag).isReadOnly

ErrorEvents == {"contract-call-error", "contract-read-error", "abi-error"}

\* C9: every failure a handler met is surfaced by an error event of that
\* handler, and the last one is in the error field unless a new attempt
\* started after it.
C9_FailuresAreStoredAndNotified ==
    /\ \A k \in 1..Len(step.failure) :
          \E j \in 1..Len(step.events) :
              /\ step.events[j].type \in ErrorEvents
              /\ step.events[j].detail.error = step.failure[k]
    /\ step.failure # <<>>
          => (this.error = Some(step.failure[Len(step.failure)]) \/ this.loading)

\* an attempt holds at most one eth_call / eth_sendTransaction request to the
\* wallet and, for contract-read only, at most one request to the endpoint
AtMostOneDispatch ==
    \A i \in 1..Len(calls) :
        /\ Cardinality({k \in 1..Len(calls[i].reqs) :
                           /\ calls[i].reqs[k].via = "wallet"
                           /\ calls[i].reqs[k].method \in DispatchMethods}) <= 1
        /\ Cardinality({k \in 1..Len(calls[i].reqs) : calls[i].reqs[k].via = "rpc"})
              <= (IF calls[i].kind = "contract-read" THEN 1 ELSE 0)

Missing(t) == t.contractAddress = "" \/ t.methodName = "" \/ t.methodData = NULL

\* what invoking the element's call does in the current state, up to its
\* first await
Invoke ==
    IF tag = "contract-call" THEN callContract(this, ethereum, walletChain)
    ELSE readContract(this, ethereum, walletChain)

\* the invocation fails with msg, sends nothing and starts nothing, and
\* leaves loading and result as they are
FailsUntouched(msg) ==
    /\ Invoke.failure = <<msg>>
    /\ Invoke.this.error = Some(msg)
    /\ Invoke.newCalls = <<>>
    /\ Invoke.newFetches = <<>>
    /\ Invoke.this.loading = this.loading
    /\ Invoke.this.result = this.result

\* C11 as stated: in every reachable state where contractAddress, methodName
\* or the method descriptor is missing, invoking callContract / readContract
\* fails with the missing-contract-information error, sends no request and
\* leaves loading and result unchanged.
C11_MissingInfoFailsBeforeAnyRequest ==
    Missing(this) => FailsUntouched(Msg1(MISSING_INFO))

\* C11 amended: the same, for contract-read and for contract-call on a page
\* with a wallet provider; contract-call on a page without one fails with the
\* install-a-wallet error instead, whatever is missing, and likewise sends no
\* request and leaves loading and result unchanged.
C11_MissingInfoAfterTheWalletCheck ==
    /\ (Missing(this) /\ (tag = "contract-read" \/ ethereum))
          => FailsUntouched(Msg1(MISSING_INFO))
    /\ (tag = "contract-call" /\ ~ethereum) => FailsUntouched(Msg1(NO_WALLET))

\* C11's case: an invocation has just failed the missing-information check
C11_Witness ==
    /\ Missing(this)
    /\ step.failure = <<Msg1(MISSING_INFO)>>
    /\ step.events = <<>>
    /\ this.error = Some(Msg1(MISSING_INFO))
    /\ calls = <<>>


\* C12: a contract-read attempt whose call data could be encoded sends its
\* first request to the wallet when a wallet provider is present, else to the
\* RPC endpoint when rpc-url is configured, else it fails with the
\* no-transport error having sent nothing; an attempt sends a second request
\* only to the RPC endpoint, only after its wallet request was rejected and
\* only when rpc-url is configured.
C12_WalletFirstThenRpcFallback ==
    [][\A i \in 1..Len(calls') :
          calls'[i].kind = "contract-read"
          => /\ (i > Len(calls) /\ ~encodeCall(this').ok) => calls'[i].reqs = <<>>
             /\ (i > Len(calls) /\ encodeCall(this').ok)
                   => IF ethereum
                      THEN /\ Len(calls'[i].reqs) = 1
                           /\ calls'[i].reqs[1].via = "wallet"
                           /\ calls'[i].reqs[1].method = "eth_call"
                      ELSE IF this'.rpcUrl # ""
                      THEN /\ Len(calls'[i].reqs) = 1
                           /\ calls'[i].reqs[1].via = "rpc"
                      ELSE /\ calls'[i].reqs = <<>>
                           /\ calls'[i].pc = "error"
                           /\ calls'[i].failure = Some(Msg1(NO_TRANSPORT))
             /\ (i <= Len(calls) /\ Len(calls'[i].reqs) > Len(calls[i].reqs))
                   => /\ Len(calls[i].reqs) = 1
                      /\ calls[i].reqs[1].via = "wallet"
                      /\ Replied(i, "rejected")
                      /\ this.rpcUrl # ""
                      /\ Len(calls'[i].reqs) = 2
                      /\ calls'[i].reqs[2].via = "rpc"]_vars

\* C12's case: the wallet rejected the read and the attempt went to the endpoint
C12_Witness ==
    \E i \in 1..Len(calls) :
        /\ calls[i].kind = "contract-read"
        /\ Len(calls[i].reqs) = 2
        /\ calls[i].reqs[1].via = "wallet"
        /\ calls[i].replies[1] = "rejected"
        /\ calls[i].reqs[2].via = "rpc"


\* C13: every eth_sendTransaction request of a contract-call attempt comes
\* after the attempt's eth_accounts request was answered with at least one
\* account, and its from field is the first of them; an attempt whose
\* eth_accounts request was answered with no account is settled with the
\* connect-your-wallet error and holds no eth_sendTransaction or eth_call
\* request.
C13_TransactionsComeFromTheFirstAccount ==
    \A i \in 1..Len(calls) :
        calls[i].kind = "contract-call"
        => /\ \A k \in 1..Len(calls[i].reqs) :
                 calls[i].reqs[k].method = "eth_sendTransaction"
                 => /\ k > 1
                    /\ calls[i].reqs[1].method = "eth_accounts"
                    /\ calls[i].replies[1] = "resolved"
                    /\ calls[i].accounts # <<>>
                    /\ calls[i].reqs[k].from = calls[i].accounts[1]
           /\ (Len(calls[i].replies) >= 1 /\ calls[i].replies[1] = "resolved"
               /\ calls[i].accounts = <<>>)
                 => /\ calls[i].pc = "error"
                    /\ calls[i].failure = Some(Msg1(NOT_CONNECTED))
                    /\ \A k \in 1..Len(calls[i].reqs) :
                           calls[i].reqs[k].method \notin DispatchMethods

\* C13's case: a transaction was sent on behalf of the connected account
C13_Witness ==
    \E i \in 1..Len(calls) :
        /\ calls[i].kind = "contract-call"
        /\ calls[i].accounts = <<ACCOUNT, OTHER_ACCOUNT>>
        /\ LastReq(calls[i]).method = "eth_sendTransaction"
        /\ LastReq(calls[i]).from = ACCOUNT


\* invocation i settled with success in this step
Succeeded(i) ==
    /\ calls'[i].pc = "success"
    /\ i > Len(calls) \/ calls[i].pc # "success"

\* C14: an attempt past the pre-checks holds no event until it settles and
\* exactly one from then on, the success event if it succeeded and the error
\* event if it failed; the success event is emitted in the step in which the
\* transport's answer arrived, with loading false, and carries the element's
\* result, method name and arguments and, for contract-call, the isReadOnly
\* flag the dispatch was made with (true exactly when it went out as eth_call).
C14_OneEventPerAttempt ==
    [][\A i \in 1..Len(calls') :
          /\ Len(calls'[i].events) = (IF calls'[i].pc \in {"success", "error"} THEN 1 ELSE 0)
          /\ calls'[i].pc = "success"
                => calls'[i].events[1].type = SuccessEvent(calls'[i].kind)
          /\ calls'[i].pc = "error"
                => calls'[i].events[1].type = ErrorEvent(calls'[i].kind)
          /\ Succeeded(i)
                => /\ i <= Len(calls)
                   /\ Replied(i, "resolved")
                   /\ this'.loading = FALSE
                   /\ calls'[i].events[1].detail.result = this'.result
                   /\ calls'[i].events[1].detail.method = this'.methodName
                   /\ calls'[i].events[1].detail.args = this'.methodArgs
                   /\ calls'[i].kind = "contract-call"
                         => calls'[i].events[1].detail.isReadOnly
                                = (LastReq(calls'[i]).method = "eth_call")]_vars


\* the attempt a has sent its call and the answer is outstanding
InFlight(a) == a.pc \in {"eth_call", "eth_sendTransaction", "rpc"}

\* C15: in every reachable state in which an attempt has dispatched its call
\* and has not settled, loading is true; and while such an attempt is
\* outstanding loading does not turn false.
C15_LoadingWhileACallIsOutstanding ==
    [][/\ (\E i \in 1..Len(calls') : InFlight(calls'[i])) => this'.loading
       /\ \A i \in 1..Len(calls) :
             (InFlight(calls[i]) /\ InFlight(calls'[i]) /\ this.loading) => this'.loading]_vars


\* the positions of the function entries of an ABI that carry the name
FunctionsNamed(abi, name) ==
    {i \in 1..Len(abi) : abi[i].type = "function" /\ abi[i].name = name}

Earliest(S) == CHOOSE i \in S : \A j \in S : i <= j

\* argument lists a caller may have supplied
SuppliedArgs == {<<>>, <<JsNumber(5)>>, <<JsString(<<"z", "z">>)>>, <<JsNumber(5), JsNumber(5)>>}

\* C16: in every reachable state with an ABI and a method name that some
\* function entry carries, parseMethodFromAbi stores the entry at the earliest
\* position among the entries of type "function" with that name, whatever the
\* argument list is; entries of other types and later overloads are passed over.
C16_ResolverTakesTheFirstFunctionNamed ==
    (this.abi # NULL /\ this.methodName # "" /\ FunctionsNamed(this.abi[1], this.methodName) # {})
    => \A args \in SuppliedArgs \cup {this.methodArgs} :
          parseMethodFromAbi([this EXCEPT !.methodArgs = args]).methodData
              = Some(this.abi[1][Earliest(FunctionsNamed(this.abi[1], this.methodName))])

\* C16's case: "number" was resolved in an ABI that has an event of that name
\* before two functions of that name, with an argument that fits the second
C16_Witness ==
    /\ this.abi = Some(AbiToken)
    /\ this.methodName = "number"
    /\ Cardinality(FunctionsNamed(AbiToken, "number")) = 2
    /\ AbiToken[1].name = "number"
    /\ this.methodArgs = <<JsNumber(5)>>
    /\ this.methodData = Some(AbiToken[2])
    /\ this.methodData[1].inputs[1].type = "address"


ReadOnlyMutabilities == {"view", "pure"}

\* C17: in every reachable state, parseMethodFromAbi on an ABI and name that
\* resolve stores the resolved descriptor together with isReadOnly = TRUE
\* exactly when its stateMutability is view or pure (FALSE for nonpayable,
\* payable and an entry without stateMutability); and whenever the element
\* holds a descriptor, isReadOnly is the classification of that descriptor.
C17_ReadOnlyIffViewOrPure ==
    /\ Resolved(this) # NULL
          => /\ parseMethodFromAbi(this).methodData = Resolved(this)
             /\ parseMethodFromAbi(this).isReadOnly
                    = (Resolved(this)[1].stateMutability \in ReadOnlyMutabilities)
             /\ Resolved(this)[1].stateMutability \in {"nonpayable", "payable", NO_MUTABILITY}
                    => ~parseMethodFromAbi(this).isReadOnly
    /\ this.methodData # NULL
          => this.isReadOnly = (this.methodData[1].stateMutability \in ReadOnlyMutabilities)

\* C17's case: contract-read, which starts with isReadOnly true, resolved an
\* entry that has no stateMutability
C17_Witness ==
    /\ tag = "contract-read"
    /\ this.methodData # NULL
    /\ this.methodData = Resolved(this)
    /\ this.methodData[1].stateMutability = NO_MUTABILITY
    /\ ~this.isReadOnly


\* ---- the encoder and decoder on their own (CodecSpec)
LowerHexChars == {HEX_CHARS[i] : i \in 1..16}

\* a 32-byte word: 64 lowercase hex characters
IsWord(hex) == Len(hex) = 64 /\ \A i \in 1..Len(hex) : hex[i] \in LowerHexChars

\* a <= b for two magnitudes in canonical decimal digits
LessEqDigits(a, b) ==
    \/ Len(a) < Len(b)
    \/ /\ Len(a) = Len(b)
       /\ \/ a = b
          \/ \E i \in 1..Len(a) :
               /\ DigitVal(a[i]) < DigitVal(b[i])
               /\ \A j \in 1..(i - 1) : a[j] = b[j]

\* the argument is an integer N written as a number or in decimal digits, and
\* the canonical decimal digits of N
IsInteger(value) ==
    value.t = "number" \/ (value.s # <<>> /\ \A i \in 1..Len(value.s) : value.s[i] \in DecDigits)

DecimalOf(value) == IF value.t = "number" THEN ToString10(value.n) ELSE StripZeros(value.s)

IsUint256(value) == IsInteger(value) /\ LessEqDigits(DecimalOf(value), MAX_UINT256)

\* C18: for every integer N with 0 <= N < 2^256, encodeValue(N, "uint256") is
\* a word of 64 lowercase hex characters, and decodeResult of "0x" followed by
\* that word, for a method whose first output is uint256, returns the decimal
\* string of N (N = 0 included).
C18_Uint256RoundTrip ==
    (codec # NULL /\ codec.type = "uint256" /\ IsUint256(codec.value)) =>
        /\ codec.pc # "input" => (codec.word[1].ok /\ IsWord(codec.word[1].hex))
        /\ (codec.pc \in {"decoded", "done"} /\ Len(this.methodData[1].outputs) > 0) =>
              /\ codec.back # NULL
              /\ codec.back[1].ok
              /\ codec.back[1].value = Some(JsString(DecimalOf(codec.value)))

\* the largest uint256 went through the encoder and came back from the decoder
C18_Witness ==
    /\ codec # NULL /\ codec.pc = "decoded" /\ codec.type = "uint256"
    /\ codec.value = JsString(MAX_UINT256)
    /\ codec.back[1].value = Some(JsString(MAX_UINT256))


\* the number of arguments encodeArguments encodes: those that meet an input
Encoded(t) ==
    IF Len(t.methodData[1].inputs) = 0 \/ Len(t.methodArgs) = 0 THEN 0
    ELSE IF Len(t.methodArgs) <= Len(t.methodData[1].inputs) THEN Len(t.methodArgs)
    ELSE Len(t.methodData[1].inputs)

\* C19: every argument that encodeArguments encodes contributes exactly 64 hex
\* characters, whatever the declared type and whatever value the encoder
\* accepts, so the argument section after the 10-character selector is 64k
\* characters long for k encoded arguments.
C19_EveryArgumentIsOneWord ==
    codec # NULL =>
        /\ (codec.pc # "input" /\ codec.word[1].ok) => Len(codec.word[1].hex) = 64
        /\ (codec.pc = "done" /\ codec.data[1].ok) =>
              Len(codec.data[1].hex) = 64 * Encoded(this)

\* a valid 20-byte address: 40 hex digits after an optional 0x
AddressBody(s) == IF StartsWith(s, <<"0", "x">>) THEN SubSeq(s, 3, Len(s)) ELSE s

IsAddress(value) ==
    /\ value.t = "string"
    /\ Len(AddressBody(value.s)) = 40
    /\ \A i \in 1..40 : IsHexDigit(AddressBody(value.s)[i])

\* C20: encoding a valid 20-byte address (40 hex digits, with or without the
\* 0x prefix, in any letter case) as type address gives exactly 64 hex
\* characters: 24 times '0', then the 40 digits of the input in lower case.
C20_AddressIsLeftPaddedLowerCase ==
    (codec # NULL /\ codec.pc # "input" /\ codec.type = "address" /\ IsAddress(codec.value)) =>
        /\ codec.word[1].ok
        /\ Len(codec.word[1].hex) = 64
        /\ \A i \in 1..24 : codec.word[1].hex[i] = "0"
        /\ \A i \in 1..40 :
              /\ codec.word[1].hex[24 + i] \in LowerHexChars
              /\ DigitVal(codec.word[1].hex[24 + i]) = DigitVal(AddressBody(codec.value.s)[i])

\* a mixed-case address with its prefix was encoded
C20_Witness ==
    /\ codec # NULL /\ codec.pc = "encoded" /\ codec.type = "address"
    /\ codec.value = JsString(ADDRESS_MIXED)
    /\ codec.word[1].ok


\* other argument lists for the same method: up to MaxArgs copies of a value
CodecArgLists ==
    {[i \in 1..n |-> v] : n \in 0..MaxArgs,
                          v \in {JsNumber(5), JsString(<<"z", "z">>), JsString(ADDRESS_MIXED)}}

\* the call data of the element t when it holds the arguments args and its
\* descriptor differs in nothing but what the signature leaves out
SameSignature(t, args, mutability) ==
    [t EXCEPT !.methodArgs = args,
              !.methodData = Some([t.methodData[1] EXCEPT !.stateMutability = mutability,
                                                          !.outputs = <<>>])]

\* C21: the selector of a call depends only on the method name and the ordered
\* input types of the descriptor: encoding the same name and input types with
\* any other argument list, the empty one included, gives the same selector in
\* front of the call data.
C21_SelectorIgnoresTheArguments ==
    (codec # NULL /\ codec.pc = "called") =>
        \A args \in CodecArgLists, mutability \in {"view", "payable"} :
            encodeCall(SameSignature(this, args, mutability)).data.selector
                = codec.call[1].data.selector

\* a call with two arguments was encoded, for a method with inputs
C21_Witness ==
    /\ codec # NULL /\ codec.pc = "called" /\ codec.call[1].ok
    /\ Len(this.methodArgs) = 2 /\ Len(this.methodData[1].inputs) > 0
    /\ encodeCall([this EXCEPT !.methodArgs = <<>>]).data.args # codec.call[1].data.args


\* the encodings of the first k arguments, each under the type of the input
\* at its position, one after the other
RECURSIVE PairedWords(_, _)
PairedWords(t, k) ==
    IF k = 0 THEN <<>>
    ELSE PairedWords(t, k - 1) \o encodeValue(t.methodArgs[k], t.methodData[1].inputs[k].type).hex

\* C22: the encoded argument section is made of min(number of supplied args,
\* number of declared inputs) words, word i being the encoding of argument i
\* under the type of inputs[i]: it is empty when there are no inputs or no
\* args, args beyond the inputs are ignored, and inputs without an arg add no
\* word (they are not zero-filled).
C22_ArgumentsPairWithInputsByPosition ==
    (codec # NULL /\ codec.pc \in {"done", "called"}) =>
        /\ codec.data[1].ok =
              (\A i \in 1..Encoded(this) :
                  encodeValue(this.methodArgs[i], this.methodData[1].inputs[i].type).ok)
        /\ codec.data[1].ok => codec.data[1].hex = PairedWords(this, Encoded(this))
        /\ (Len(this.methodData[1].inputs) = 0 \/ Len(this.methodArgs) = 0) =>
              (codec.data[1].ok /\ codec.data[1].hex = <<>>)

\* two arguments were encoded for a method with a single input: the second
\* was ignored
C22_Witness ==
    /\ codec # NULL /\ codec.pc = "done" /\ codec.data[1].ok
    /\ Len(this.methodArgs) = 2 /\ Len(this.methodData[1].inputs) = 1
    /\ codec.data[1].hex = codec.word[1].hex


\* C23: decodeResult decodes the first declared output and drops the others:
\* for a method with several outputs and a response of one 32-byte word per
\* output, the value returned is that of the first word alone, its decimal
\* value when outputs[0] is uint256 and its 20-byte address when it is address.
C23_OnlyTheFirstWordIsDecoded ==
    (/\ codec # NULL /\ codec.pc = "read" /\ codec.type \in {"uint256", "address"}
     /\ Len(this.methodData[1].outputs) > 0
     /\ codec.response = Some(Response(codec, Len(this.methodData[1].outputs)))) =>
        codec.read[1] = decodeResult(this, Some(<<"0", "x">> \o FirstWord(codec)))


\* output types decodeResult has a decoding for
DecodedTypes == {"uint256", "uint", "address", "string"}

\* C24: decodeResult returns null when the response is absent or empty or is
\* exactly "0x", whatever outputs the method declares; any other response is
\* returned unchanged when the method declares no outputs, and when the type
\* of outputs[0] is none of uint256, uint, address and string.
C24_NullAndRawResponses ==
    (codec # NULL /\ codec.pc = "read") =>
        IF codec.response \in {NULL, Some(<<>>), Some(<<"0", "x">>)}
        THEN codec.read[1].ok /\ codec.read[1].value = NULL
        ELSE (\/ Len(this.methodData[1].outputs) = 0
              \/ this.methodData[1].outputs[1].type \notin DecodedTypes) =>
                 /\ codec.read[1].ok
                 /\ codec.read[1].value = Some(JsString(codec.response[1]))

\* "0x" was decoded for a method that returns a uint256
C24_Witness ==
    /\ codec # NULL /\ codec.pc = "read" /\ codec.response = Some(<<"0", "x">>)
    /\ Len(this.methodData[1].outputs) > 0
    /\ this.methodData[1].outputs[1].type = "uint256"
    /\ codec.read[1].value = NULL


\* C25: an argument whose declared type is none of uint256, uint, address and
\* string (bool, uint8, ...) is encoded as 64 '0' characters whatever its
\* value, and encoding it raises no error.
C25_OtherTypesEncodeAsZeroWord ==
    (codec # NULL /\ codec.pc # "input" /\ codec.type \notin DecodedTypes) =>
        /\ codec.word[1].ok
        /\ codec.word[1].error = <<>>
        /\ codec.word[1].hex = [i \in 1..64 |-> "0"]

\* the number 255 was encoded for an input declared uint8
C25_Witness ==
    /\ codec # NULL /\ codec.pc = "encoded" /\ codec.type = "uint8"
    /\ codec.value = JsNumber(255)
    /\ codec.word[1].ok


\* ---- the element again (Spec)
\* the text of an integer: decimal digits with an optional sign, or 0x and
\* hex digits
IsIntegerText(s) ==
    \/ s # <<>> /\ \A i \in 1..Len(s) : s[i] \in DecDigits
    \/ Len(s) > 1 /\ s[1] \in {"-", "+"} /\ \A i \in 2..Len(s) : s[i] \in DecDigits
    \/ Len(s) > 2 /\ s[1] = "0" /\ s[2] \in {"x", "X"} /\ \A i \in 3..Len(s) : IsHexDigit(s[i])

\* an argument that meets a uint256 / uint input is a text that is not empty
\* and is not the text of an integer
BadUintArg(t) ==
    /\ t.methodData # NULL
    /\ \E k \in 1..Len(t.methodArgs) :
          /\ k <= Len(t.methodData[1].inputs)
          /\ t.methodData[1].inputs[k].type \in {"uint256", "uint"}
          /\ t.methodArgs[k].t = "string"
          /\ t.methodArgs[k].s # <<>>
          /\ ~IsIntegerText(t.methodArgs[k].s)

\* in this step invocation i ran its encoding step: readContract right when
\* it is invoked, callContract once the wallet is on the configured chain
EncodedInStep(i) ==
    IF i > Len(calls) THEN calls'[i].kind = "contract-read"
    ELSE /\ calls[i].pc \in {"eth_chainId", "wallet_switchEthereumChain"}
         /\ Replied(i, "resolved")
         /\ calls'[i].pc # "wallet_switchEthereumChain"

\* C26: if an argument paired with a uint256 / uint input cannot be parsed as
\* an integer, the call attempt fails at its encoding step: it settles in the
\* error state, with the message stored, loading false and an error event
\* emitted, and it holds no eth_call, eth_sendTransaction or RPC request.
C26_UnparseableIntegerFailsTheAttempt ==
    [][\A i \in 1..Len(calls') :
          (EncodedInStep(i) /\ BadUintArg(this'))
          => /\ calls'[i].pc = "error"
             /\ calls'[i].failure # NULL
             /\ this'.error = calls'[i].failure
             /\ ~this'.loading
             /\ \E k \in 1..Len(step'.events) :
                    /\ step'.events[k].type = ErrorEvent(calls'[i].kind)
                    /\ step'.events[k].detail.error = calls'[i].failure[1]
             /\ \A k \in 1..Len(calls'[i].reqs) :
                    /\ calls'[i].reqs[k].method \notin DispatchMethods
                    /\ calls'[i].reqs[k].via # "rpc"]_vars

\* a contract-call attempt got through the wallet's account and chain checks
\* and failed on the argument "zz" of a uint256 input
C26_Witness ==
    \E i \in 1..Len(calls) :
        /\ calls[i].kind = "contract-call"
        /\ calls[i].pc = "error"
        /\ calls[i].failure = Some(Msg3("Cannot convert ", <<"z", "z">>, " to a BigInt"))
        /\ Len(calls[i].replies) >= 2
        /\ BadUintArg(this)


\* in this step the attribute name was set to a text that is not JSON
SetToInvalidJson(name) == attrs'[name] = Some(JSON_INVALID) /\ attrs'[name] # attrs[name]

\* this step is what connectedCallback does in the current state
ConnectedStep ==
    /\ attrs' = attrs
    /\ nOps' = nOps + 1
    /\ this' = connectedCallback(tag, this, attrs, ethereum, walletChain).this
    /\ step'.events = connectedCallback(tag, this, attrs, ethereum, walletChain).events
    /\ step'.failure = connectedCallback(tag, this, attrs, ethereum, walletChain).failure
    /\ calls' = calls \o connectedCallback(tag, this, attrs, ethereum, walletChain).newCalls
    /\ fetches' = fetches \o connectedCallback(tag, this, attrs, ethereum, walletChain).newFetches

\* C27: when the abi or the method-args attribute holds a text that is not
\* valid JSON, the element falls back to abi = null, respectively to
\* methodArgs = [], and nothing else happens: no failure leaves the handler
\* (it runs to its end, where connectedCallback renders), the error field is
\* left as it was and no event is emitted.
C27_InvalidJsonFallsBackSilently ==
    [][/\ SetToInvalidJson("abi")
          => /\ this' = [this EXCEPT !.abi = NULL]
             /\ step'.events = <<>> /\ step'.failure = <<>>
             /\ calls' = calls /\ fetches' = fetches
       /\ SetToInvalidJson("method-args")
          => /\ this' = [this EXCEPT !.methodArgs = <<>>]
             /\ step'.events = <<>> /\ step'.failure = <<>>
             /\ calls' = calls /\ fetches' = fetches
       /\ (ConnectedStep /\ attrs["abi"] = Some(JSON_INVALID))
          => /\ this'.abi = NULL
             /\ this'.error = this.error
             /\ step'.events = <<>> /\ step'.failure = <<>>
             /\ calls' = calls
       /\ (ConnectedStep /\ attrs["method-args"] = Some(JSON_INVALID))
          => this'.methodArgs = <<>>]_vars

\* the ABI of an element with a resolved method was replaced by a text that
\* is not JSON
C27_Witness ==
    /\ attrs["abi"] = Some(JSON_INVALID)
    /\ this.abi = NULL
    /\ this.methodData # NULL
    /\ this.error = NULL
    /\ step.events = <<>> /\ step.failure = <<>>


\* ------------------------------------------------- the chain id normalizer
\* normalizeChainId on its own: the chain-id texts a page can write, drawn
\* from a bounded set, normalized, and the result normalized once more.
MaxChain == 40

\* with them 2^53, 2^53 + 1, 2^53 + 3 and 2^64 - 1: a double cannot hold them all
ChainTexts ==
    {ToString10(n) : n \in 0..MaxChain}
    \cup {CHAIN_SEPOLIA_DEC, CHAIN_SEPOLIA_HEX, CHAIN_MAINNET_HEX,
          <<"0", "x", "A", "A", "3", "6", "A", "7">>, <<"0", "X", "1", "F">>,
          <<"0", "0", "7">>, <<"z", "z">>, <<"1", "2", "z", "z">>, <<"-", "5">>,
          <<"9", "0", "0", "7", "1", "9", "9", "2", "5", "4", "7", "4", "0", "9", "9", "2">>,
          <<"9", "0", "0", "7", "1", "9", "9", "2", "5", "4", "7", "4", "0", "9", "9", "3">>,
          <<"9", "0", "0", "7", "1", "9", "9", "2", "5", "4", "7", "4", "0", "9", "9", "5">>,
          <<"1", "8", "4", "4", "6", "7", "4", "4", "0", "7", "3", "7", "0", "9", "5", "5", "1",
            "6", "1", "5">>}

ChainInit ==
    /\ tag = "contract-read"
    /\ this = constructor(tag)
    /\ ethereum = FALSE
    /\ walletChain = CHAIN_MAINNET_HEX
    /\ attrs = MarkupAttrs(<<>>)
    /\ calls = <<>>
    /\ fetches = <<>>
    /\ step = [failure |-> <<>>, events |-> <<>>]
    /\ nOps = 0
    /\ \E chainId \in {NULL, Some(<<>>)} \cup {Some(s) : s \in ChainTexts} :
         codec = [pc |-> "input", chainId |-> chainId, normalized |-> NULL, again |-> NULL]

\* this.chainId = this.normalizeChainId(newValue)
NormalizeChainId ==
    /\ codec # NULL /\ codec.pc = "input"
    /\ codec' = [codec EXCEPT !.pc = "normalized",
                              !.normalized = Some(normalizeChainId(codec.chainId))]
    /\ this' = [this EXCEPT !.chainId = normalizeChainId(codec.chainId)]
    /\ UNCHANGED <<tag, attrs, ethereum, walletChain, calls, fetches, step, nOps>>

\* the stored chain id normalized once more
NormalizeAgain ==
    /\ codec # NULL /\ codec.pc = "normalized"
    /\ codec' = [codec EXCEPT !.pc = "again",
                              !.again = Some(normalizeChainId(Some(this.chainId)))]
    /\ this' = [this EXCEPT !.chainId = normalizeChainId(Some(this.chainId))]
    /\ UNCHANGED <<tag, attrs, ethereum, walletChain, calls, fetches, step, nOps>>

ChainSpec == ChainInit /\ [][NormalizeChainId \/ NormalizeAgain]_vars


\* a text of decimal digits only: the decimal string of an integer N >= 0
IsDecimalText(s) == s # <<>> /\ \A i \in 1..Len(s) : s[i] \in DecDigits

\* a text that is no integer in any notation and has no 0x prefix
IsNonNumericText(s) == ~IsIntegerText(s) /\ ~StartsWith(s, <<"0", "x">>)

\* C28: normalizeChainId maps the decimal string of an integer N >= 0 to "0x"
\* followed by the lowercase hex digits of N, a 0x-prefixed value to the same
\* value in lowercase, and an absent or non-numeric value to "0x1"; and
\* normalizing its result once more returns that result unchanged.
C28_NormalizeChainId ==
    (codec # NULL /\ codec.pc = "again") =>
        /\ (codec.chainId # NULL /\ IsDecimalText(codec.chainId[1]))
              => codec.normalized[1] = <<"0", "x">> \o BigToString16(StripZeros(codec.chainId[1]))
        /\ (codec.chainId # NULL /\ StartsWith(codec.chainId[1], <<"0", "x">>))
              => codec.normalized[1] = ToLowerCase(codec.chainId[1])
        /\ (codec.chainId = NULL \/ codec.chainId[1] = <<>> \/ IsNonNumericText(codec.chainId[1]))
              => codec.normalized[1] = CHAIN_MAINNET_HEX
        /\ codec.again = codec.normalized


\* C29: contract-read only reads: every call it dispatches is for a method
\* whose stateMutability is view or pure and which the element has classified
\* read-only, and none of the requests it has issued is an
\* eth_sendTransaction or any request other than a read.
C29_ContractReadOnlyReads ==
    [][tag = "contract-read" =>
          \A i \in 1..Len(calls') :
              /\ Dispatched(i)
                    => /\ this'.methodData # NULL
                       /\ ~Mutates(this'.methodData[1])
                       /\ this'.isReadOnly
              /\ \A k \in 1..Len(calls'[i].reqs) :
                    calls'[i].reqs[k].method \notin {"eth_sendTransaction",
                                                      "wallet_switchEthereumChain"}]_vars


\* the element's attributes give a contract address, a method name and an
\* inline ABI that contains a function of that name
HasInlineMethod ==
    /\ OrStr(attrs["contract-address"], "") # ""
    /\ OrStr(attrs["method-name"], "") # ""
    /\ OrStr(attrs["abi"], "") # ""
    /\ JSONParse(OrStr(attrs["abi"], "")).ok
    /\ FindMethod(JSONParse(OrStr(attrs["abi"], "")).value, OrStr(attrs["method-name"], ""), 1) # NULL

\* the element's attributes give an abi-url and no inline ABI that parses
AbiFromUrl ==
    /\ OrStr(attrs["abi-url"], "") # ""
    /\ OrStr(attrs["abi"], "") = "" \/ ~JSONParse(OrStr(attrs["abi"], "")).ok

\* in this step the ABI fetch i completed
FetchCompleted(i) == fetches[i].pc = "fetch" /\ fetches'[i].pc = "done"

\* C30: when a contract-read element with a contract address, a method name
\* and an inline ABI containing the method is mounted, the mount itself starts
\* a read (and sends it, whenever a wallet or an rpc-url is there and the call
\* encodes); when the ABI comes from abi-url, the mount starts the fetch and
\* no read, and a read that starts when a fetch completes starts for the fetch
\* the mount began and with the method resolved; it does start when that fetch
\* delivered an ABI holding the method.
C30_ReadOnMount ==
    [][tag = "contract-read" =>
         /\ (ConnectedStep /\ HasInlineMethod)
               => /\ Len(calls') = Len(calls) + 1
                  /\ calls'[Len(calls')].kind = "contract-read"
                  /\ ((ethereum \/ OrStr(attrs["rpc-url"], "") # "") /\ encodeCall(this').ok)
                        => Dispatched(Len(calls'))
         /\ (ConnectedStep /\ AbiFromUrl)
               => /\ calls' = calls
                  /\ Len(fetches') = Len(fetches) + 1
                  /\ fetches'[Len(fetches')].pc = "fetch"
                  /\ fetches'[Len(fetches')].thenRead
         /\ \A i \in 1..Len(fetches) :
               FetchCompleted(i)
               => /\ Len(calls') > Len(calls)
                        => fetches[i].thenRead /\ this'.methodData # NULL
                  /\ (/\ fetches[i].thenRead
                      /\ step'.events # <<>> /\ step'.events[1].type = "abi-loaded"
                      /\ Resolved(this') # NULL
                      /\ this'.contractAddress # "")
                        => /\ Len(calls') = Len(calls) + 1
                           /\ calls'[Len(calls')].kind = "contract-read"]_vars

\* the element took its ABI from abi-url, was mounted once, the fetch the
\* mount began has completed and the read it started is outstanding
C30_Witness ==
    /\ tag = "contract-read"
    /\ nOps = 1
    /\ AbiFromUrl
    /\ \E i \in 1..Len(fetches) : fetches[i].pc = "done" /\ fetches[i].thenRead
    /\ \E i \in 1..Len(calls) : calls[i].kind = "contract-read" /\ calls[i].pc = "eth_call"


\* the descriptors of the ABIs in use whose selector the invocation a sent
SentDescriptors(a) ==
    {m \in {AbiCounter[k] : k \in 1..Len(AbiCounter)} \cup {AbiToken[k] : k \in 1..Len(AbiToken)} :
        /\ m.type = "function"
        /\ m.name = LastReq(a).data[1].selector.keccak256.name
        /\ InputTypes(m) = LastReq(a).data[1].selector.keccak256.types}

\* what decodeResult makes of the transport's answers for the descriptor m
DecodedFor(t, m) ==
    {decodeResult([t EXCEPT !.methodData = Some(m)], Some(r)).value : r \in CallResults}

\* C34: when an attempt succeeds, whatever attribute changed while it was
\* outstanding, its outcome refers to the method that was sent: the stored
\* result is the answer decoded with the outputs of a descriptor whose
\* selector was dispatched, and the success event reports that method's name,
\* arguments (they encode to the words that were sent) and read/write flag.
C34_OutcomeRefersToTheSentMethod ==
    [][\A i \in 1..Len(calls') :
          (Succeeded(i) /\ LastReq(calls'[i]).method = "eth_call"
                        /\ SentDescriptors(calls'[i]) # {})
          => /\ \E m \in SentDescriptors(calls'[i]) :
                   /\ this'.result \in DecodedFor(this', m)
                   /\ encodeArguments([this' EXCEPT !.methodData = Some(m),
                                                    !.methodArgs = calls'[i].events[1].detail.args]).hex
                         = LastReq(calls'[i]).data[1].args
                   /\ calls'[i].kind = "contract-call"
                         => calls'[i].events[1].detail.isReadOnly = ~Mutates(m)
             /\ calls'[i].events[1].detail.method
                   = LastReq(calls'[i]).data[1].selector.keccak256.name]_vars


\* C35: abi-url changed from the first address to the second while the fetch
\* of the first was outstanding; one of the two fetches has delivered its ABI,
\* and in the step in which the other delivers, whichever it is, the ABI is the
\* one the second address serves and the method its name resolves to in it is
\* the resolved method.
C35_LatestAbiUrlWins ==
    [][\A i \in 1..Len(fetches) :
          (/\ FetchCompleted(i)
           /\ Len(fetches) = 2
           /\ fetches[1].url = ABI_URL /\ fetches[2].url = ABI_URL_2
           /\ fetches[3 - i].pc = "done"
           /\ attrs["abi"] = NULL /\ this.abi # NULL
           /\ step'.events # <<>> /\ step'.events[1].type = "abi-loaded")
          => /\ this'.abi = Some(AbiToken)
             /\ Resolved(this') # NULL => this'.methodData = Resolved(this')]_vars


\* the events of kind type among the events of this step
EventsOfType(type) == {k \in 1..Len(step'.events) : step'.events[k].type = type}

\* C37: in the step in which an ABI fetch fails (non-OK status, network error
\* or a body that is not JSON), abi, methodData and isReadOnly stay as they
\* were, exactly one abi-error event and no abi-loaded event is emitted, the
\* event carries the failure message, and fetchAbi leaves error holding that
\* message and loading false (seen in the state wherever the mount's
\* continuation does not go on with a read in the same task).
C37_FailedFetchLeavesTheAbi ==
    [][\A i \in 1..Len(fetches) :
          (FetchCompleted(i) /\ step'.events # <<>> /\ step'.events[1].type = "abi-error")
          => /\ this'.abi = this.abi
             /\ this'.methodData = this.methodData
             /\ this'.isReadOnly = this.isReadOnly
             /\ Cardinality(EventsOfType("abi-error")) = 1
             /\ EventsOfType("abi-loaded") = {}
             /\ step'.failure # <<>> /\ step'.events[1].detail.error = step'.failure[1]
             /\ ~(fetches[i].thenRead /\ this.methodData # NULL)
                   => /\ this'.error = Some(step'.events[1].detail.error)
                      /\ this'.loading = FALSE]_vars

\* an element that held an ABI and a resolved method met a failed fetch
C37_Witness ==
    /\ \E i \in 1..Len(fetches) : fetches[i].pc = "done"
    /\ step.events # <<>> /\ step.events[1].type = "abi-error"
    /\ this.abi # NULL /\ this.methodData # NULL
    /\ this.error = Some(step.events[1].detail.error)
    /\ this.loading = FALSE


\* the attempt a ran to its end
Settled(a) == a.pc \in {"success", "error"}

\* C38: under a fair transport every call attempt that set loading to true
\* is settled in the end, with success or with an error, and from the point
\* where every attempt is settled and every fetch is done the loading flag is
\* false, also when several attempts or an ABI fetch overlapped.
C38_EveryAttemptSettles ==
    /\ \A i \in 1..MaxOps : <>[](Len(calls) >= i => Settled(calls[i]))
    /\ []((/\ \A i \in 1..Len(calls) : Settled(calls[i])
           /\ \A i \in 1..Len(fetches) : fetches[i].pc = "done")
          => this.loading = FALSE)

\* two attempts went to the transport, one of them more than once, and both
\* are settled
C38_Witness ==
    /\ Len(calls) = 2
    /\ Settled(calls[1]) /\ Settled(calls[2])
    /\ Len(calls[1].replies) > 0 /\ Len(calls[2].replies) > 0
    /\ Len(calls[2].replies) + Len(calls[1].replies) > 2
    /\ this.loading = FALSE


\* ---------------------------------------------------------- connect-wallet
\* The ConnectWallet element in the same variables: tag is "connect-wallet",
\* this holds its fields (null and the empty string are both <<>>), calls its
\* connect() and checkAndSwitchChain() invocations.
\* the constructor, then attributeChangedCallback for the chain-id of the markup
WalletInit ==
    /\ tag = "connect-wallet"
    /\ ethereum \in BOOLEAN
    /\ walletChain \in WalletChains
    /\ \E chainId \in {NULL} \cup {Some(c) : c \in {<<"1">>, CHAIN_MAINNET_HEX, CHAIN_SEPOLIA_DEC,
                                                       CHAIN_SEPOLIA_HEX}} :
         /\ attrs = [MarkupAttrs(<<>>) EXCEPT !["chain-id"] = chainId]
         /\ this = [connected |-> FALSE, address |-> "", ensData |-> NULL, loading |-> FALSE,
                    chainId |-> OrChars(chainId, CHAIN_MAINNET_HEX), currentChainId |-> <<>>,
                    balance |-> "0"]
    /\ calls = <<>>
    /\ fetches = <<>>
    /\ step = [failure |-> <<>>, events |-> <<>>]
    /\ nOps = 0
    /\ codec = NULL

\* connectedCallback()
WalletMounted ==
    /\ nOps < MaxOps
    /\ nOps' = nOps + 1
    /\ Apply(Eff([this EXCEPT !.chainId = OrChars(attrs["chain-id"], CHAIN_MAINNET_HEX)]))
    /\ UNCHANGED <<codec, tag, attrs, ethereum, walletChain>>

\* attributeChangedCallback("chain-id", oldValue, newValue): the field takes
\* the new value (null when removed) and a connected element starts
\* checkAndSwitchChain(), which runs to its first await
WalletChainIdChanged ==
    /\ nOps < MaxOps
    /\ nOps' = nOps + 1
    /\ \E newValue \in {NULL} \cup {Some(c) : c \in {<<"1">>, CHAIN_MAINNET_HEX, CHAIN_SEPOLIA_DEC,
                                                       CHAIN_SEPOLIA_HEX}} :
         /\ newValue # attrs["chain-id"]
         /\ attrs' = [attrs EXCEPT !["chain-id"] = newValue]
         /\ Apply([Eff([this EXCEPT !.chainId = OrChars(newValue, <<>>)]) EXCEPT
                      !.newCalls =
                          IF this.connected /\ ethereum /\ newValue # NULL
                          THEN <<Attempt("checkAndSwitchChain", "eth_chainId",
                                         <<Request("wallet", "eth_chainId", <<>>, "", "", NULL,
                                                   walletChain)>>, NULL)>>
                          ELSE <<>>])
    /\ UNCHANGED <<codec, tag, ethereum, walletChain>>

\* connect() up to its first await; without a wallet it alerts and returns
\* (an invocation that ended at the alert)
Connect ==
    /\ nOps < MaxOps
    /\ nOps' = nOps + 1
    /\ IF ethereum
       THEN Apply([Eff([this EXCEPT !.loading = TRUE]) EXCEPT
                      !.newCalls = <<Attempt("connect", "eth_requestAccounts",
                                             <<Request("wallet", "eth_requestAccounts", <<>>, "",
                                                       "", NULL, walletChain)>>, NULL)>>])
       ELSE Apply([Eff(this) EXCEPT
                      !.failure = Msg1(Msg1("Please install a wallet extension like MetaMask")),
                      !.newCalls = <<[Attempt("connect", "alert", <<>>, NULL) EXCEPT
                                         !.failure = Some(Msg1("Please install a wallet extension like MetaMask"))]>>])
    /\ UNCHANGED <<codec, tag, attrs, ethereum, walletChain>>

\* disconnect()
Disconnect ==
    /\ nOps < MaxOps
    /\ nOps' = nOps + 1
    /\ Apply([Eff([this EXCEPT !.connected = FALSE, !.address = "", !.ensData = NULL,
                               !.currentChainId = <<>>, !.balance = "0"]) EXCEPT
                 !.events = <<[type |-> "wallet-disconnected", detail |-> NULL]>>])
    /\ UNCHANGED <<codec, tag, attrs, ethereum, walletChain>>

\* the catch block of connect()
connectCatch(t, a, msg) ==
    [this |-> [t EXCEPT !.loading = FALSE],
     call |-> [a EXCEPT !.pc = "error", !.failure = Some(msg),
                        !.events = @ \o <<[type |-> "wallet-error", detail |-> [error |-> msg]]>>]]

\* the wallet answers eth_requestAccounts: connect() stores the first account
\* and asks for the chain
RequestAccountsReturn ==
    \E i \in 1..Len(calls) :
        /\ calls[i].pc = "eth_requestAccounts"
        /\ \/ \E accounts \in {<<ACCOUNT>>, <<OTHER_ACCOUNT, ACCOUNT>>} :
                Resume(i, [this |-> [this EXCEPT !.address = accounts[1]],
                           call |-> [Answered(calls[i], "resolved") EXCEPT
                                        !.pc = "eth_chainId", !.accounts = accounts,
                                        !.reqs = @ \o <<Request("wallet", "eth_chainId", <<>>, "",
                                                                "", NULL, walletChain)>>]])
           \/ Resume(i, connectCatch(this, Answered(calls[i], "rejected"), Msg1(WALLET_REJECTED)))
        /\ UNCHANGED <<codec, tag, attrs, ethereum, walletChain, fetches, nOps>>

\* connect() past the chain reconciliation: connected is set and fetchEnsData()
\* and fetchBalance() are started
connectProfile(t, a) ==
    [this |-> [t EXCEPT !.connected = TRUE],
     call |-> [a EXCEPT !.pc = "profile",
                 !.reqs = @ \o <<Request("wallet", "eth_getBalance", <<>>, t.address, "", NULL,
                                         walletChain)>>]]

\* switchChain(chainId) up to its await
switchChain(t, a, chainId) ==
    [this |-> t,
     call |-> [a EXCEPT !.pc = "wallet_switchEthereumChain",
                 !.reqs = @ \o <<Request("wallet", "wallet_switchEthereumChain", chainId, "", "",
                                         NULL, walletChain)>>]]

\* the wallet answers eth_chainId, to connect() or to checkAndSwitchChain();
\* a rejection leaves checkAndSwitchChain() by an unhandled rejection
WalletChainIdReturn ==
    \E i \in 1..Len(calls) :
        /\ calls[i].pc = "eth_chainId"
        /\ \/ IF calls[i].kind = "connect"
              THEN Resume(i, IF this.chainId # <<>> /\ this.chainId # walletChain
                             THEN switchChain([this EXCEPT !.currentChainId = walletChain],
                                              Answered(calls[i], "resolved"), this.chainId)
                             ELSE connectProfile([this EXCEPT !.currentChainId = walletChain],
                                                 Answered(calls[i], "resolved")))
              ELSE Resume(i, IF walletChain # this.chainId
                             THEN switchChain(this, Answered(calls[i], "resolved"), this.chainId)
                             ELSE [this |-> this,
                                   call |-> [Answered(calls[i], "resolved") EXCEPT !.pc = "done"]])
           \/ IF calls[i].kind = "connect"
              THEN Resume(i, connectCatch(this, Answered(calls[i], "rejected"),
                                          Msg1(WALLET_REJECTED)))
              ELSE Resume(i, [this |-> this,
                              call |-> [Answered(calls[i], "rejected") EXCEPT
                                           !.pc = "error", !.failure = Some(Msg1(WALLET_REJECTED))]])
        /\ UNCHANGED <<codec, tag, attrs, ethereum, walletChain, fetches, nOps>>

\* the wallet answers wallet_switchEthereumChain: switchChain stores the id it
\* asked for; its failure ends connect() and is logged by checkAndSwitchChain()
WalletSwitchReturn ==
    \E i \in 1..Len(calls) :
        /\ calls[i].pc = "wallet_switchEthereumChain"
        /\ \/ /\ SwitchParam(calls[i]) \in WalletChains
              /\ walletChain' = SwitchParam(calls[i])
              /\ IF calls[i].kind = "connect"
                 THEN Resume(i, connectProfile([this EXCEPT !.currentChainId = SwitchParam(calls[i])],
                                               Answered(calls[i], "resolved")))
                 ELSE Resume(i, [this |-> [this EXCEPT !.currentChainId = SwitchParam(calls[i])],
                                 call |-> [Answered(calls[i], "resolved") EXCEPT !.pc = "done"]])
           \/ /\ walletChain' = walletChain
              /\ IF calls[i].kind = "connect"
                 THEN Resume(i, connectCatch(this, Answered(calls[i], "rejected"),
                                             Msg2(SWITCH_FAILED, WALLET_REJECTED)))
                 ELSE Resume(i, [this |-> this,
                                 call |-> [Answered(calls[i], "rejected") EXCEPT !.pc = "done"]])
        /\ UNCHANGED <<codec, tag, attrs, ethereum, fetches, nOps>>

\* fetchEnsData() and fetchBalance() have both ended (neither throws): the ENS
\* record or null and the balance are stored, then connect() emits
\* wallet-connected
ProfileReturn ==
    \E i \in 1..Len(calls) :
        /\ calls[i].pc = "profile"
        /\ \E ensData \in {NULL, Some("vitalik.eth")}, balance \in {"0", "1.0000"} :
              Resume(i,
                     [this |-> [this EXCEPT !.ensData = ensData, !.balance = balance,
                                            !.loading = FALSE],
                      call |-> [Answered(calls[i], "resolved") EXCEPT
                                   !.pc = "success",
                                   !.events = @ \o <<[type |-> "wallet-connected",
                                                      detail |-> [address |-> this.address,
                                                                  ensData |-> ensData,
                                                                  chainId |-> this.currentChainId]]>>]])
        /\ UNCHANGED <<codec, tag, attrs, ethereum, walletChain, fetches, nOps>>

WalletSpec ==
    /\ WalletInit
    /\ [][\/ WalletMounted \/ WalletChainIdChanged \/ Connect \/ Disconnect
          \/ RequestAccountsReturn \/ WalletChainIdReturn \/ WalletSwitchReturn
          \/ ProfileReturn]_vars


\* C31: connect-wallet takes its chain-id in hex or in decimal and treats the
\* two as the same chain: no wallet_switchEthereumChain is sent while the
\* wallet is already on the chain the chain-id names (chain-id "1", wallet on
\* "0x1"), and every switch request carries a 0x-prefixed hexadecimal id.
C31_HexOrDecimalIsTheSameChain ==
    \A i \in 1..Len(calls) : \A k \in 1..Len(calls[i].reqs) :
        calls[i].reqs[k].method = "wallet_switchEthereumChain"
            => /\ StartsWith(calls[i].reqs[k].chainId, <<"0", "x">>)
               /\ normalizeChainId(Some(calls[i].reqs[k].chainId)) # calls[i].reqs[k].walletChain


\* the positions at which a connect() invocation is waiting
ConnectWaiting == {"eth_requestAccounts", "eth_chainId", "wallet_switchEthereumChain", "profile"}

\* the events of the given type that the invocation a dispatched
EventsOf(a, type) == SelectSeq(a.events, LAMBDA e : e.type = type)

\* C32: every connect() that does not end connected emits a wallet-error and
\* leaves connected false and loading false; every connect() that succeeds
\* emits wallet-connected exactly once, after the accounts were obtained and
\* every request of the chain reconciliation was granted, carrying the first
\* account as address and the element's current chain id.
C32_ConnectEndsInErrorOrConnected ==
    [][\A i \in 1..Len(calls') :
          (/\ calls'[i].kind = "connect"
           /\ calls'[i].pc \notin ConnectWaiting
           /\ (i > Len(calls) \/ calls[i].pc \in ConnectWaiting))
          => IF calls'[i].pc = "success"
             THEN /\ Len(EventsOf(calls'[i], "wallet-connected")) = 1
                  /\ EventsOf(calls'[i], "wallet-error") = <<>>
                  /\ calls'[i].accounts # <<>>
                  /\ \A k \in 1..Len(calls'[i].replies) : calls'[i].replies[k] = "resolved"
                  /\ EventsOf(calls'[i], "wallet-connected")[1].detail.address
                         = calls'[i].accounts[1]
                  /\ EventsOf(calls'[i], "wallet-connected")[1].detail.chainId
                         = this'.currentChainId
             ELSE /\ Len(EventsOf(calls'[i], "wallet-error")) >= 1
                  /\ EventsOf(calls'[i], "wallet-connected") = <<>>
                  /\ ~this'.connected
                  /\ ~this'.loading]_vars


\* C36: whenever connect-wallet is not connected and no connect is in progress
\* (loading false), address is the empty string and currentChainId is null:
\* after a failed connect, after disconnect, and after a chain switch that
\* completes later than a disconnect.
C36_DisconnectedHoldsNoAccount ==
    (~this.connected /\ ~this.loading) => (this.address = "" /\ this.currentChainId = <<>>)


\* ------------------------------------------------------------- Keccak-256
\* window.keccak256 is the keccak256 method of the bundled js-sha3.  A 32-bit
\* integer of the JavaScript bit operators is the function of its bits, bit 0
\* the lowest; Word(hi, lo) is the integer hi * 65536 + lo.
Word(hi, lo) == [j \in 0..31 |-> IF j < 16 THEN (lo \div 2^j) % 2 = 1 ELSE (hi \div 2^(j - 16)) % 2 = 1]

\* a ^ b
Xor(a, b) == [j \in 0..31 |-> a[j] # b[j]]

\* a | b
Or(a, b) == [j \in 0..31 |-> a[j] \/ b[j]]

\* [6, 1536, 393216, 100663296], the padding of the sha3 methods
PADDING == <<Word(0, 6), Word(0, 1536), Word(6, 0), Word(1536, 0)>>

\* [1, 256, 65536, 16777216]
KECCAK_PADDING == <<Word(0, 1), Word(0, 256), Word(1, 0), Word(256, 0)>>

\* round constants that are all zero
RC_ZERO == [i \in 1..48 |-> Word(0, 0)]

\* the round constants, low word then high word of each round
RC ==
    <<Word(0, 1), Word(0, 0), Word(0, 32898), Word(0, 0), Word(0, 32906), Word(32768, 0),
      Word(32768, 32768), Word(32768, 0), Word(0, 32907), Word(0, 0), Word(32768, 1),
      Word(0, 0), Word(32768, 32897), Word(32768, 0), Word(0, 32777), Word(32768, 0),
      Word(0, 138), Word(0, 0), Word(0, 136), Word(0, 0), Word(32768, 32777), Word(0, 0),
      Word(32768, 10), Word(0, 0), Word(32768, 32907), Word(0, 0), Word(0, 139),
      Word(32768, 0), Word(0, 32905), Word(32768, 0), Word(0, 32771), Word(32768, 0),
      Word(0, 32770), Word(32768, 0), Word(0, 128), Word(32768, 0), Word(0, 32778),
      Word(0, 0), Word(32768, 10), Word(32768, 0), Word(32768, 32897), Word(32768, 0),
      Word(0, 32896), Word(32768, 0), Word(32768, 1), Word(0, 0), Word(32768, 32776),
      Word(32768, 0)>>

\* new Keccak(bits, padding, bits).  A slot of blocks that was never written
\* and the lastByteIndex that update never set read as 0 under |=, ^=, >> and &
Keccak(bits, padding) ==
    [blocks |-> [i \in 0..((1600 - 2 * bits) \div 32) |-> Word(0, 0)],
     s |-> [i \in 0..49 |-> Word(0, 0)],
     padding |-> padding, outputBits |-> bits, reset |-> TRUE, finalized |-> FALSE,
     block |-> Word(0, 0), start |-> 0, lastByteIndex |-> 0,
     blockCount |-> (1600 - 2 * bits) \div 32,
     byteCount |-> ((1600 - 2 * bits) \div 32) * 4,
     outputBlocks |-> bits \div 32,
     extraBytes |-> (bits % 32) \div 8]

\* one pass of the loop of f(s), for n = 0, 2, ..., 46.  The words s[2k] and
\* s[2k + 1] are the low and the high half of one 64-bit lane k; the source
\* spells every lane out, the tables below hold the lane and the rotation
\* that each of its b assignments uses.
f(s, n) ==
    LET Lane(k, z) == s[2 * k + (z \div 32)][z % 32]
        \* c0 .. c9
        C(x, z) == (Lane(x, z) # Lane(x + 5, z)) # ((Lane(x + 10, z) # Lane(x + 15, z)) # Lane(x + 20, z))
        \* h and l
        H(x, z) == C((x + 4) % 5, z) # C((x + 1) % 5, (z + 63) % 64)
        \* s[i] ^= h, s[i + 1] ^= l
        A(k, z) == Lane(k, z) # H(k % 5, z)
        \* b0 .. b49: the lane that is rotated into lane k of b, and by how much
        From == <<<<0, 0>>, <<6, 44>>, <<12, 43>>, <<18, 21>>, <<24, 14>>,
                  <<3, 28>>, <<9, 20>>, <<10, 3>>, <<16, 45>>, <<22, 61>>,
                  <<1, 1>>, <<7, 6>>, <<13, 25>>, <<19, 8>>, <<20, 18>>,
                  <<4, 27>>, <<5, 36>>, <<11, 10>>, <<17, 15>>, <<23, 56>>,
                  <<2, 62>>, <<8, 55>>, <<14, 39>>, <<15, 41>>, <<21, 2>>>>
        B(k, z) == A(From[k + 1][1], (z + 64 - From[k + 1][2]) % 64)
        \* s[i] = b ^ (~b' & b'')
        Chi(k, z) == B(k, z) # (~B(5 * (k \div 5) + ((k + 1) % 5), z)
                                /\ B(5 * (k \div 5) + ((k + 2) % 5), z))
    IN  [i \in 0..49 |->
            [j \in 0..31 |->
                IF i < 2 THEN Chi(0, 32 * i + j) # RC[n + i + 1][j]
                ELSE Chi(i \div 2, 32 * (i % 2) + j)]]

\* the messages hashed: "", "abc", and 135, 136 and 137 times "a"
KeccakInit ==
    /\ tag = "contract-call"
    /\ this = constructor(tag)
    /\ ethereum = FALSE
    /\ walletChain = CHAIN_MAINNET_HEX
    /\ attrs = MarkupAttrs(<<>>)
    /\ calls = <<>>
    /\ fetches = <<>>
    /\ step = [failure |-> <<>>, events |-> <<>>]
    /\ nOps = 0
    /\ \E message \in {<<>>, <<"a", "b", "c">>} \cup {[i \in 1..len |-> "a"] : len \in 135..137} :
         codec = Keccak(256, KECCAK_PADDING)
                 @@ [pc |-> "update", message |-> message, index |-> 0, n |-> 0, ret |-> "",
                     permutations |-> 0, hex |-> <<>>]

\* Keccak.prototype.update(message): one pass of its while loop, up to the
\* call of f(s) when the block is full; with no input left it returns and
\* hex() calls finalize()
KeccakUpdate ==
    /\ codec # NULL /\ codec.pc = "update"
    /\ IF codec.index < Len(codec.message)
       THEN LET count == IF Len(codec.message) - codec.index < codec.byteCount - codec.start
                         THEN Len(codec.message) - codec.index
                         ELSE codec.byteCount - codec.start
                i == codec.start + count
                cleared == IF codec.reset
                           THEN [w \in 0..codec.blockCount |->
                                    IF w = 0 THEN codec.block ELSE Word(0, 0)]
                           ELSE codec.blocks
                \* blocks[i >> 2] |= code << SHIFT[i++ & 3]
                blocks == [w \in 0..codec.blockCount |->
                              [j \in 0..31 |->
                                  \/ cleared[w][j]
                                  \/ /\ 4 * w + (j \div 8) >= codec.start
                                     /\ 4 * w + (j \div 8) < i
                                     /\ (CharCode(codec.message[codec.index + 4 * w + (j \div 8)
                                                                - codec.start + 1])
                                             \div 2^(j % 8)) % 2 = 1]]
            IN  codec' =
                  IF i >= codec.byteCount
                  THEN [codec EXCEPT !.index = @ + count, !.blocks = blocks, !.lastByteIndex = i,
                                     !.start = i - codec.byteCount,
                                     !.block = blocks[codec.blockCount],
                                     !.s = [w \in 0..49 |-> IF w < codec.blockCount
                                                            THEN Xor(codec.s[w], blocks[w])
                                                            ELSE codec.s[w]],
                                     !.reset = TRUE, !.pc = "f", !.n = 0, !.ret = "update"]
                  ELSE [codec EXCEPT !.index = @ + count, !.blocks = blocks, !.lastByteIndex = i,
                                     !.start = i, !.reset = FALSE]
       ELSE codec' = [codec EXCEPT !.pc = "finalize"]
    /\ UNCHANGED <<tag, this, attrs, ethereum, walletChain, calls, fetches, step, nOps>>

\* one pass of the loop of f(s); after the pass for n = 46 f returns
KeccakF ==
    /\ codec # NULL /\ codec.pc = "f"
    /\ codec' = [codec EXCEPT !.s = f(codec.s, codec.n),
                              !.n = @ + 2,
                              !.pc = IF codec.n + 2 < 48 THEN "f" ELSE codec.ret,
                              !.permutations = IF codec.n + 2 < 48 THEN @ ELSE @ + 1]
    /\ UNCHANGED <<tag, this, attrs, ethereum, walletChain, calls, fetches, step, nOps>>

\* Keccak.prototype.finalize(), up to its call of f(s)
KeccakFinalize ==
    /\ codec # NULL /\ codec.pc = "finalize"
    /\ LET i == codec.lastByteIndex
           padded == [codec.blocks EXCEPT ![i \div 4] = Or(@, codec.padding[(i % 4) + 1])]
           moved == IF codec.lastByteIndex = codec.byteCount
                    THEN [w \in 0..codec.blockCount |->
                             IF w = 0 THEN padded[codec.blockCount] ELSE Word(0, 0)]
                    ELSE padded
           blocks == [moved EXCEPT ![codec.blockCount - 1] = Or(@, Word(32768, 0))]
       IN  codec' = [codec EXCEPT !.finalized = TRUE, !.blocks = blocks,
                                  !.s = [w \in 0..49 |-> IF w < codec.blockCount
                                                         THEN Xor(codec.s[w], blocks[w])
                                                         ELSE codec.s[w]],
                                  !.pc = "f", !.n = 0, !.ret = "hex"]
    /\ UNCHANGED <<tag, this, attrs, ethereum, walletChain, calls, fetches, step, nOps>>

\* Keccak.prototype.hex() after finalize(): eight digits for each of the
\* outputBlocks words (fewer than blockCount, so its loop never calls f, and
\* extraBytes is 0)
KeccakHex ==
    /\ codec # NULL /\ codec.pc = "hex"
    /\ LET Nibble(block, shift) ==
               HEX_CHARS[(IF block[shift] THEN 1 ELSE 0) + (IF block[shift + 1] THEN 2 ELSE 0)
                         + (IF block[shift + 2] THEN 4 ELSE 0)
                         + (IF block[shift + 3] THEN 8 ELSE 0) + 1]
           shifts == <<4, 0, 12, 8, 20, 16, 28, 24>>
       IN  codec' = [codec EXCEPT
                        !.pc = "done",
                        !.hex = [k \in 1..(8 * codec.outputBlocks) |->
                                    Nibble(codec.s[(k - 1) \div 8], shifts[((k - 1) % 8) + 1])]]
    /\ UNCHANGED <<tag, this, attrs, ethereum, walletChain, calls, fetches, step, nOps>>

KeccakSpec ==
    KeccakInit /\ [][KeccakUpdate \/ KeccakF \/ KeccakFinalize \/ KeccakHex]_vars


\* C33: the Keccak-256 used for selectors returns, in lowercase hex,
\* c5d2460186f7233c927e7db2dcc703c0e500b653ca82273b7bfad8045d85a47 for the
\* empty input and
\* 4e03657aea45a94fc7d47ba826c8d667c0d1e6e33a64a036ec44f58fa12d6c45 for "abc".
C33_KnownDigests ==
    (codec # NULL /\ codec.pc = "done")
        => /\ codec.message = <<>>
                 => codec.hex = <<"c", "5", "d", "2", "4", "6", "0", "1", "8", "6", "f", "7", "2",
                                  "3", "3", "c", "9", "2", "7", "e", "7", "d", "b", "2", "d", "c",
                                  "c", "7", "0", "3", "c", "0", "e", "5", "0", "0", "b", "6", "5",
                                  "3", "c", "a", "8", "2", "2", "7", "3", "b", "7", "b", "f", "a",
                                  "d", "8", "0", "4", "5", "d", "8", "5", "a", "4", "7">>
           /\ codec.message = <<"a", "b", "c">>
                 => codec.hex = <<"4", "e", "0", "3", "6", "5", "7", "a", "e", "a", "4", "5", "a",
                                  "9", "4", "f", "c", "7", "d", "4", "7", "b", "a", "8", "2", "6",
                                  "c", "8", "d", "6", "6", "7", "c", "0", "d", "1", "e", "6", "e",
                                  "3", "3", "a", "6", "4", "a", "0", "3", "6", "e", "c", "4", "4",
                                  "f", "5", "8", "f", "a", "1", "2", "d", "6", "c", "4", "5">>

\* C33 as it holds: the digest of the empty input has 64 digits, the 63 of
\* the statement followed by 0, and the digest of "abc" is the one stated.
C33_KnownDigestsOf64Digits ==
    (codec # NULL /\ codec.pc = "done")
        => /\ codec.message = <<>>
                 => codec.hex = <<"c", "5", "d", "2", "4", "6", "0", "1", "8", "6", "f", "7", "2",
                                  "3", "3", "c", "9", "2", "7", "e", "7", "d", "b", "2", "d", "c",
                                  "c", "7", "0", "3", "c", "0", "e", "5", "0", "0", "b", "6", "5",
                                  "3", "c", "a", "8", "2", "2", "7", "3", "b", "7", "b", "f", "a",
                                  "d", "8", "0", "4", "5", "d", "8", "5", "a", "4", "7", "0">>
           /\ codec.message = <<"a", "b", "c">>
                 => codec.hex = <<"4", "e", "0", "3", "6", "5", "7", "a", "e", "a", "4", "5", "a",
                                  "9", "4", "f", "c", "7", "d", "4", "7", "b", "a", "8", "2", "6",
                                  "c", "8", "d", "6", "6", "7", "c", "0", "d", "1", "e", "6", "e",
                                  "3", "3", "a", "6", "4", "a", "0", "3", "6", "e", "c", "4", "4",
                                  "f", "5", "8", "f", "a", "1", "2", "d", "6", "c", "4", "5">>

C33_Witness ==
    /\ codec # NULL /\ codec.pc = "done"
    /\ codec.message = <<>>
    /\ codec.permutations = 1
    /\ Len(codec.hex) = 64

\* bit t of byte i of the block
BlockBit(i, t) == codec.blocks[i \div 4][8 * (i % 4) + t]

\* where finalize() put the first byte of the padding
PaddingAt == IF codec.lastByteIndex = codec.byteCount THEN 0 ELSE codec.lastByteIndex

\* C39: keccak256 is Keccak-256, not SHA3-256: the padding starts with the
\* byte 0x01 (not 0x06) and ends with 0x80 in the last byte of the rate block,
\* with zero bytes between; the input is absorbed 136 bytes (34 words) at a
\* time; every permutation is 24 passes over 50 words of 32 bits; and the
\* digest is 64 lowercase hex digits.
C39_KeccakNotSha3 ==
    codec # NULL
        => /\ codec.blockCount = 34 /\ codec.byteCount = 136
           /\ DOMAIN codec.blocks = 0..34
           /\ DOMAIN codec.s = 0..49
           /\ \A w \in 0..49 : DOMAIN codec.s[w] = 0..31
           /\ IF codec.pc = "f" THEN codec.n % 2 = 0 /\ codec.n \div 2 < 24
              ELSE codec.n \in {0, 48}
           /\ codec.pc \in {"update", "finalize"}
                 => codec.permutations = codec.index \div 136
           /\ codec.pc \in {"hex", "done"}
                 => codec.permutations = (Len(codec.message) \div 136) + 1
           /\ codec.finalized
                 => /\ BlockBit(PaddingAt, 0)
                    /\ \A t \in 1..6 : ~BlockBit(PaddingAt, t)
                    /\ BlockBit(PaddingAt, 7) <=> PaddingAt = 135
                    /\ BlockBit(135, 7)
                    /\ \A t \in 0..6 : PaddingAt < 135 => ~BlockBit(135, t)
                    /\ \A i \in 0..135 : \A t \in 0..7 :
                          (PaddingAt < i /\ i < 135) => ~BlockBit(i, t)
           /\ codec.pc = "done"
                 => /\ Len(codec.hex) = 64
                    /\ \A k \in 1..Len(codec.hex) :
                          \E d \in 1..16 : codec.hex[k] = HEX_CHARS[d]

C39_Witness ==
    /\ codec # NULL /\ codec.pc = "done"
    /\ Len(codec.message) = 135
    /\ codec.finalized
    /\ BlockBit(134, 0) /\ BlockBit(135, 0) /\ BlockBit(135, 7)
    /\ Len(codec.hex) = 64

====
